---- MODULE Spec2Model ----
(***************************************************************************)
(* A model of the page pipeline of percona-parser: the page decompressor,  *)
(* the per-page loops of the decompress / decrypt+decompress / extract     *)
(* modes, and the rebuild-to-uncompressed pipeline.                        *)
(*                                                                         *)
(* A page is a record of the byte ranges the code reads and writes, each   *)
(* field standing for the bytes at its on-disk offset:                     *)
(*   chk      bytes 0..4    FIL_PAGE_SPACE_OR_CHKSUM                       *)
(*   page_no  bytes 4..8    FIL_PAGE_OFFSET                                *)
(*   prev     bytes 8..12   FIL_PAGE_PREV                                  *)
(*   next     bytes 12..16  FIL_PAGE_NEXT                                  *)
(*   lsn      bytes 16..24  FIL_PAGE_LSN                                   *)
(*   type     bytes 24..26  FIL_PAGE_TYPE                                  *)
(*   flush    bytes 26..34  FIL_PAGE_FILE_FLUSH_LSN                        *)
(*   space    bytes 34..38  FIL_PAGE_ARCH_LOG_NO_OR_SPACE_ID               *)
(*   body     bytes 38..size-8: fsp (FSP header: space id, flags, SDI      *)
(*            slots, XDES free bits), index_id (PAGE_INDEX_ID), fseg       *)
(*            (PAGE_BTR_SEG_LEAF and PAGE_BTR_SEG_TOP), lob (LOB header    *)
(*            and payload), hdr (the index page header, the infimum and    *)
(*            supremum records and the page directory), recs (the user     *)
(*            records), data (the rest),                                   *)
(*            oldtr (the 8 trailer bytes of a physical-size image that lie *)
(*            inside the body once the image sits in a logical-size page)  *)
(*   tchk     bytes size-8..size-4  trailer checksum                       *)
(*   tlsn     bytes size-4..size    low half of the trailer LSN            *)
(* zok says whether page_zip_decompress_low accepts the bytes; expanded    *)
(* says whether the image is the result of page_zip_decompress_low.        *)
(* cipher is 0 for a body in the clear and else the key the body is        *)
(* encrypted under; comp is the COMPACT bit of PAGE_N_HEAP.                *)
(***************************************************************************)
EXTENDS Integers, Sequences, FiniteSets, TLC

----------------------------------------------------------------------------
(* Bounds of the model *)

\* largest number of pages of an input file
MaxPages == 3

\* largest number of pages of an input file of the rebuilds that write SDI
\* documents: page 0, the SDI root and two SDI blob pages
MaxSdiPages == 4

----------------------------------------------------------------------------
(* Program constants *)

FIL_PAGE_INDEX == 17855
FIL_PAGE_RTREE == 17854
FIL_PAGE_SDI == 17853
FIL_PAGE_TYPE_FSP_HDR == 8
FIL_PAGE_INODE == 3
FIL_PAGE_TYPE_BLOB == 10
FIL_PAGE_SDI_BLOB == 18
FIL_PAGE_SDI_ZBLOB == 19

\* 0xFFFFFFFF in the code; the model uses the largest integer TLC has.  The
\* value is only compared, never computed with.
FIL_NULL == 2147483647
SPACE_UNKNOWN == 2147483647
\* std::numeric_limits<uint64_t>::max(), likewise only compared
UINT64_MAX == 2147483647

UNIV_PAGE_SIZE_ORIG == 16384
UNIV_ZIP_SIZE_MIN == 1024

FIL_PAGE_OFFSET == 4
FIL_PAGE_FILE_FLUSH_LSN == 26
FIL_PAGE_DATA == 38
FIL_PAGE_END_LSN_OLD_CHKSUM == 8

SDI_VERSION == 1
PAGE_NEW_SUPREMUM_END == 120
PAGE_DIR == 8
PAGE_DIR_SLOT_SIZE == 2
PAGE_DIR_SLOT_MAX_N_OWNED == 8
kSdiRecHeaderSize == 5
kSdiRecOffVar == 33
kSdiExternRefSize == 20
kSdiLobHdrSize == 8

PAGE_NEW_INFIMUM == 99
PAGE_NEW_SUPREMUM == 112
PAGE_HEAP_NO_USER_LOW == 2
PAGE_DIR_SLOT_MIN_N_OWNED == 4
REC_NEXT == 2
REC_N_NEW_EXTRA_BYTES == 5
REC_STATUS_ORDINARY == 0
REC_STATUS_NODE_PTR == 1
REC_STATUS_INFIMUM == 2
REC_STATUS_SUPREMUM == 3

----------------------------------------------------------------------------
(* Pages *)

\* the FSP header part of a page body; sdi maps a byte offset to the pair of
\* u32s stored there
\* free is the set of pages whose XDES_FREE_BIT is set in the descriptors
NoFsp == [space_id |-> 0, flags |-> 0, sdi |-> <<>>, free |-> {}]

\* the index page header of a page (PAGE_N_DIR_SLOTS, PAGE_HEAP_TOP,
\* PAGE_N_HEAP, PAGE_N_RECS, PAGE_LEVEL), its infimum and supremum records
\* (n_owned, status and the next-record delta) and its directory slots,
\* slot 0 first
ZeroHdr ==
  [n_dir_slots |-> 0, heap_top |-> 0, n_heap |-> 0, n_recs |-> 0, level |-> 0,
   inf |-> [n_owned |-> 0, status |-> 0, next |-> 0],
   sup |-> [n_owned |-> 0, status |-> 0, next |-> 0], dir |-> <<>>]

\* kInfimumSupremumCompact and the header of a page without user records
EmptyHdr ==
  [n_dir_slots |-> 2, heap_top |-> PAGE_NEW_SUPREMUM_END,
   n_heap |-> 32768 + PAGE_HEAP_NO_USER_LOW, n_recs |-> 0, level |-> 0,
   inf |-> [n_owned |-> 1, status |-> REC_STATUS_INFIMUM, next |-> 13],
   sup |-> [n_owned |-> 1, status |-> REC_STATUS_SUPREMUM, next |-> 0],
   dir |-> <<PAGE_NEW_INFIMUM, PAGE_NEW_SUPREMUM>>]

\* an on-disk page image
MkPage(type, no, index_id, zok) ==
  [chk |-> 1111, page_no |-> no, prev |-> 0, next |-> 0, lsn |-> 5,
   type |-> type, flush |-> 3, space |-> 9, fsp |-> NoFsp,
   index_id |-> index_id, fseg |-> no + 11, data |-> no + 1, lob |-> <<>>,
   hdr |-> EmptyHdr, recs |-> <<>>, oldtr |-> <<>>, tchk |-> 2222,
   tlsn |-> 5, zok |-> zok, expanded |-> FALSE, cipher |-> 0, comp |-> TRUE]

\* memset(out_buf, 0, out_buf_len)
ZeroPage ==
  [chk |-> 0, page_no |-> 0, prev |-> 0, next |-> 0, lsn |-> 0,
   type |-> 0, flush |-> 0, space |-> 0, fsp |-> NoFsp,
   index_id |-> 0, fseg |-> 0, data |-> 0, lob |-> <<>>, hdr |-> ZeroHdr,
   recs |-> <<>>, oldtr |-> <<>>, tchk |-> 0, tlsn |-> 0, zok |-> FALSE, expanded |-> FALSE,
   cipher |-> 0, comp |-> FALSE]

\* page_zip_decompress_low(&page_zip, aligned_temp, true) on bytes it accepts:
\* the page header is kept and the body is the expanded image
page_zip_decompress_low(p) == [p EXCEPT !.expanded = TRUE]

\* whether page_zip_decompress_low returns true on the bytes: an encrypted
\* body is no zip stream
ZipAccepts(p) == p.zok /\ p.cipher = 0

----------------------------------------------------------------------------
(* Page decompressor *)

should_decompress_page_noSDI(page_data, physical_size, logical_size) ==
  /\ physical_size < logical_size
  /\ page_data.type \in {FIL_PAGE_INDEX, FIL_PAGE_RTREE}

should_decompress_page(page_data, physical_size, logical_size) ==
  IF physical_size >= logical_size THEN FALSE
  ELSE page_data.type \in {FIL_PAGE_INDEX, FIL_PAGE_RTREE, FIL_PAGE_SDI}

\* the result of one call: the return value, *actual_size and out_buf
decompress_page_inplace_RtreeFatal(src_buf, physical_size, logical_size) ==
  IF ~should_decompress_page(src_buf, physical_size, logical_size)
  THEN [ok |-> TRUE, actual_size |-> physical_size, out |-> src_buf]
  ELSE IF ZipAccepts(src_buf)
       THEN [ok |-> TRUE, actual_size |-> logical_size,
             out |-> page_zip_decompress_low(src_buf)]
       ELSE [ok |-> FALSE, actual_size |-> physical_size, out |-> ZeroPage]

decompress_page_inplace(src_buf, physical_size, logical_size) ==
  IF ~should_decompress_page(src_buf, physical_size, logical_size)
  THEN [ok |-> TRUE, actual_size |-> physical_size, out |-> src_buf]
  ELSE IF src_buf.type = FIL_PAGE_INDEX
       THEN IF ZipAccepts(src_buf)
            THEN [ok |-> TRUE, actual_size |-> logical_size,
                  out |-> page_zip_decompress_low(src_buf)]
            ELSE [ok |-> FALSE, actual_size |-> physical_size,
                  out |-> ZeroPage]
       ELSE IF src_buf.type = FIL_PAGE_RTREE
            THEN IF ZipAccepts(src_buf)
                 THEN [ok |-> TRUE, actual_size |-> logical_size,
                       out |-> page_zip_decompress_low(src_buf)]
                 ELSE [ok |-> TRUE, actual_size |-> physical_size,
                       out |-> src_buf]
            ELSE IF ZipAccepts(src_buf)
                 THEN [ok |-> TRUE, actual_size |-> logical_size,
                       out |-> page_zip_decompress_low(src_buf)]
                 ELSE [ok |-> FALSE, actual_size |-> physical_size,
                       out |-> ZeroPage]

----------------------------------------------------------------------------
(* FSP flags and page sizes *)

\* bit 0 POST_ANTELOPE, bits 1..4 ZIP_SSIZE, bit 5 ATOMIC_BLOBS, bits 6..9
\* PAGE_SSIZE, bit 14 SDI, bits 15.. unused
FSP_FLAGS_GET_POST_ANTELOPE(flags) == flags % 2
FSP_FLAGS_GET_ZIP_SSIZE(flags) == (flags \div 2) % 16
FSP_FLAGS_HAS_ATOMIC_BLOBS(flags) == (flags \div 32) % 2
FSP_FLAGS_GET_PAGE_SSIZE(flags) == (flags \div 64) % 16
FSP_FLAGS_HAS_SDI(flags) == (flags \div 16384) % 2 = 1
FSP_FLAGS_GET_UNUSED(flags) == flags \div 32768

\* flags of a tablespace written by the server
MkFlags(zip_ssize, page_ssize, sdi) ==
  1 + zip_ssize * 2 + 32 + page_ssize * 64 + sdi * 16384

fsp_flags_is_valid(flags) ==
  \/ flags = 0
  \/ /\ FSP_FLAGS_GET_UNUSED(flags) = 0
     /\ FSP_FLAGS_GET_POST_ANTELOPE(flags) = FSP_FLAGS_HAS_ATOMIC_BLOBS(flags)
     /\ FSP_FLAGS_GET_ZIP_SSIZE(flags) <= 5
     /\ FSP_FLAGS_GET_PAGE_SSIZE(flags) <= 7
     /\ FSP_FLAGS_GET_PAGE_SSIZE(flags) \notin {1, 2}

\* page_size_t(flags): a zero page ssize is the legacy 16k page
page_size_t(flags) ==
  LET pss == FSP_FLAGS_GET_PAGE_SSIZE(flags)
      ssize == IF pss = 0 THEN 5 ELSE pss
      logical == (UNIV_ZIP_SIZE_MIN \div 2) * 2^ssize
      zss == FSP_FLAGS_GET_ZIP_SSIZE(flags)
  IN [logical |-> logical,
      physical |-> IF zss = 0 THEN logical
                   ELSE (UNIV_ZIP_SIZE_MIN \div 2) * 2^zss]

\* determine_page_size on a file, a sequence of pages: the flags of page 0
determine_page_size(file) ==
  IF Len(file) = 0 THEN [ok |-> FALSE, pg_sz |-> page_size_t(0)]
  ELSE LET flags == file[1].fsp.flags
       IN IF ~fsp_flags_is_valid(flags)
          THEN [ok |-> FALSE, pg_sz |-> page_size_t(0)]
          ELSE [ok |-> TRUE, pg_sz |-> page_size_t(flags)]

\* srv_page_size after determine_page_size on file, srv before it: the
\* global is assigned once the flags of page 0 are found valid
srv_page_size_after(file, srv) ==
  IF determine_page_size(file).ok
  THEN determine_page_size(file).pg_sz.logical
  ELSE srv

\* fsp_header_get_sdi_offset(page_size): XDES_ARR_OFFSET + XDES_SIZE *
\* xdes_arr_size(page_size) + Encryption::INFO_MAX_SIZE, with 64 pages to the
\* extent of a 16k tablespace
fsp_header_get_sdi_offset(pg_sz) == 150 + 40 * (pg_sz.physical \div 64) + 115

----------------------------------------------------------------------------
(* Page decryptor *)

\* the tablespace key the pages of an encrypted file are encrypted under
TsKey == 7
\* a body decrypted under a key it was not encrypted under
Garbled == 99

\* the encrypted form of a page: header and trailer stay in the clear
EncryptPage(p, key) == [p EXCEPT !.cipher = key]

\* decrypt_page_inplace(page, physical_size, key, 32, iv, ...): the first 38
\* and the last 8 bytes are kept, the interior is AES-CBC decrypted
decrypt_page_inplace(p, key) ==
  [ok |-> TRUE,
   page |-> [p EXCEPT !.cipher = IF p.cipher = key THEN 0 ELSE Garbled]]

----------------------------------------------------------------------------
(* State *)

VARIABLES
  \* one call of decompress_page_inplace
  dp_src, dp_physical, dp_logical, dp_ret, dp_pc,
  \* the input tablespace file, a sequence of pages in the clear (page k of
  \* the file is in_pages[k + 1]); mode 4 reads its encrypted form
  in_pages,
  \* decompress_ibd (mode 2): loop counter i, the chunks written to out_fd,
  \* pages_failed, position and return value
  m2_i, m2_out, m2_pages_failed, m2_pc, m2_ret,
  \* do_decrypt_then_decompress_main (mode 4)
  m4_page_number, m4_out, m4_pc, m4_ret,
  \* do_parse_main (mode 3): page counter and the pages handed to
  \* parse_records_on_page
  m3_page_no, m3_parsed, m3_pc,
  \* rebuild_uncompressed_ibd (mode 5): its arguments, position, result, the
  \* diagnostic printed on failure, loop counter, the output file, and the
  \* locals that live across iterations
  opt, rb_pc, rb_ret, rb_err, rb_page_no, out_file, space_id,
  sdi_root_page, sdi_root_set, sdi_blob_pages, sdi_blob_output, blob_written,
  \* record extraction: the parser_context_t and table_def_t of the run, the
  \* page a record loop is on ([no, size, img]) and the locals of the loop,
  \* the rows process_ibrec printed, and the ibd_table_iterator of the
  \* library with the position of read_next_record and its return value
  parser_ctx, table, walk_page, walk_st, rows_out, iter, lib_pc, lib_ret,
  \* what the calls of ibd_read_row on the table gave so far: the code of
  \* the last call, the number of calls that returned IBD_SUCCESS, and the
  \* rows handed to the caller
  lib_log,
  \* the global srv_page_size of decompress.cc, which the macro
  \* UNIV_PAGE_SIZE reads
  srv_page_size,
  \* one call of read_external_lob_value: the field (its length and its
  \* reference), g_row_output.lob_max_bytes, the position, the locals of the
  \* chain loop, out.size(), and the return value with the length
  \* format_field_value prints
  lob_field, lob_max_bytes, lob_pc, lob_loop, lob_out, lob_ret

dpvars == <<dp_src, dp_physical, dp_logical, dp_ret, dp_pc>>
m2vars == <<m2_i, m2_out, m2_pages_failed, m2_pc, m2_ret>>
m4vars == <<m4_page_number, m4_out, m4_pc, m4_ret>>
m3vars == <<m3_page_no, m3_parsed, m3_pc>>
rbvars == <<rb_pc, rb_ret, rb_err, rb_page_no, out_file, space_id,
            sdi_root_page, sdi_root_set, sdi_blob_pages, sdi_blob_output,
            blob_written>>
exlocal == <<parser_ctx, table, walk_page, walk_st, rows_out, iter, lib_pc,
             lib_ret, lib_log>>
exvars == <<exlocal, srv_page_size>>
lobvars == <<lob_field, lob_max_bytes, lob_pc, lob_loop, lob_out,
             lob_ret>>
vars == <<dpvars, in_pages, m2vars, m4vars, m3vars, opt, rbvars, exvars,
          lobvars>>

NoRet == [ok |-> FALSE, actual_size |-> 0, out |-> ZeroPage]

dpIdle ==
  /\ dp_src = ZeroPage
  /\ dp_physical = 0
  /\ dp_logical = 0
  /\ dp_ret = NoRet
  /\ dp_pc = "idle"

\* number of pages of the input file: st_size / physical page size
NumPages == Len(in_pages)

\* no mode 2, 3, 4 run in this specification
modesOff ==
  /\ in_pages = <<>>
  /\ m2_i = 0 /\ m2_out = <<>> /\ m2_pages_failed = 0
  /\ m2_pc = "off" /\ m2_ret = "none"
  /\ m4_page_number = 0 /\ m4_out = <<>> /\ m4_pc = "off" /\ m4_ret = "none"
  /\ m3_page_no = 0 /\ m3_parsed = <<>> /\ m3_pc = "off"

\* the options of a rebuild and its local sdi_entries; sdi_doc is the array
\* of the SDI JSON file, element by element; the four space id options are
\* those main parses and hands to the call of rebuild_uncompressed_ibd
NoOpt == [have_json |-> FALSE, sdi_doc |-> <<>>, sdi_entries |-> <<>>,
          index_id_remap |-> <<>>,
          target_sdi_root_set |-> FALSE, target_sdi_root_page |-> 0,
          use_target_sdi_root |-> FALSE, use_source_sdi_root |-> FALSE,
          use_target_space_id |-> FALSE, use_source_space_id |-> FALSE,
          target_space_id_override_set |-> FALSE,
          target_space_id_override |-> 0]

\* rebuild_uncompressed_ibd before its first statement
rbEntry ==
  /\ rb_ret = "none" /\ rb_err = "none" /\ rb_page_no = 0
  /\ out_file = <<>> /\ space_id = SPACE_UNKNOWN
  /\ sdi_root_page = FIL_NULL /\ sdi_root_set = FALSE
  /\ sdi_blob_pages = <<>> /\ sdi_blob_output = <<>> /\ blob_written = {}

\* a parser_context_t whose target index is resolved
TargetCtx(id) == [target_index_set |-> TRUE, target_index_id |-> id]

\* the walk before its first iteration
walk_start ==
  [rec_offset |-> PAGE_NEW_INFIMUM, steps |-> 0, seen |-> <<>>,
   halt |-> "none"]

\* the table_def_t of the run
LeafTable == [min_hdr |-> 6, data_min_size |-> 4, data_max_size |-> 20]

\* no record loop is running
NoWalkPage == [no |-> 0, size |-> 0, img |-> ZeroPage]

\* the library is not in use
NoIter == [current_page |-> 0, at_end |-> FALSE, row_queue |-> <<>>,
           rows_read |-> 0]

\* ibd_result_t
IBD_SUCCESS == 0
IBD_ERROR_FILE_READ == 0 - 3
IBD_ERROR_DECOMPRESSION == 0 - 7

\* no call of ibd_read_row has returned
NoLog == [returned |-> FALSE, code |-> IBD_SUCCESS, ok_calls |-> 0,
          rows |-> <<>>]

\* a call of ibd_read_row returned a row
LogRow(log, row) ==
  [returned |-> TRUE, code |-> IBD_SUCCESS, ok_calls |-> log.ok_calls + 1,
   rows |-> Append(log.rows, row)]

\* a call of ibd_read_row returned without a row
LogNoRow_asSuccess(log) == [log EXCEPT !.returned = TRUE, !.code = IBD_SUCCESS]
LogNoRow(log) == [log EXCEPT !.returned = TRUE, !.code = IBD_ERROR_FILE_READ]

\* the error codes of ibd_result_t
ibd_error_codes == ((0 - 12)..(0 - 1)) \cup {0 - 99}

\* ibd_get_row_count on an open table
ibd_get_row_count_withQueued(t) == t.rows_read + Len(t.row_queue)
ibd_get_row_count(t) == t.rows_read

\* a LobRef: BTR_EXTERN_OFFSET is read into offset and into version
LobRef(page_no, offset, length, being_modified) ==
  [page_no |-> page_no, offset |-> offset, version |-> offset,
   length |-> length, being_modified |-> being_modified]

\* a fil_addr_t; is_null() compares the page
NullAddr == [page |-> FIL_NULL, boffset |-> 0]

\* an index entry whose bytes are all zero (the bytes of a page that the
\* model does not name are zero)
ZeroEntry ==
  [boffset |-> 0, next |-> [page |-> 0, boffset |-> 0],
   versions_first |-> [page |-> 0, boffset |-> 0], lob_version |-> 0,
   page_no |-> 0, z_page_no |-> 0, z_frag_id |-> 0, data_len |-> 0,
   zdata_len |-> 0]

\* the locals of the chain loops before the loops: page_no, boffset (addr),
\* offset, remaining (avail_out in read_zblob_external), total and steps of
\* the loop of the chain; current and entry of read_zlob_new_format; in_*
\* are addr, remaining and steps of the loop of read_zlob_visible_entry or
\* of read_zlob_stream
NoLoop ==
  [page_no |-> FIL_NULL, boffset |-> 0, offset |-> 0, want |-> 0,
   remaining |-> 0, total |-> 0, steps |-> 0, current |-> ZeroEntry,
   entry |-> ZeroEntry, in_page |-> FIL_NULL, in_boffset |-> 0,
   in_remaining |-> 0, in_steps |-> 0]
NoLobRet == [ok |-> FALSE, truncated |-> FALSE, printed |-> 0]

\* no external field is read in this specification
lobOff ==
  /\ lob_field = [field_len |-> 0, ref |-> LobRef(FIL_NULL, 0, 0, FALSE)]
  /\ lob_max_bytes = 0 /\ lob_pc = "off" /\ lob_loop = NoLoop
  /\ lob_out = 0 /\ lob_ret = NoLobRet

\* no record extraction runs in this specification
exOff ==
  /\ parser_ctx = TargetCtx(0) /\ table = <<>>
  /\ walk_page = NoWalkPage /\ walk_st = walk_start /\ rows_out = <<>>
  /\ iter = NoIter /\ lib_pc = "off" /\ lib_ret = <<>> /\ lib_log = NoLog
  /\ srv_page_size = 0

----------------------------------------------------------------------------
(* Specification of the page decompressor: one call on a bounded set of    *)
(* pages and sizes                                                         *)

PageTypes == {FIL_PAGE_INDEX, FIL_PAGE_RTREE, FIL_PAGE_SDI,
              FIL_PAGE_TYPE_FSP_HDR, FIL_PAGE_INODE, FIL_PAGE_TYPE_BLOB,
              FIL_PAGE_SDI_BLOB}
ZipSizes == {4096, 8192, 16384}
LogicalSizes == {8192, 16384}
IndexIds == {42, 43}

InitPage ==
  /\ dp_src \in {MkPage(t, n, id, z) : t \in PageTypes, n \in 0..MaxPages - 1,
                                      id \in IndexIds, z \in BOOLEAN}
  /\ dp_physical \in ZipSizes
  /\ dp_logical \in LogicalSizes
  /\ dp_ret = NoRet
  /\ dp_pc = "call"
  /\ modesOff
  /\ opt = NoOpt /\ rb_pc = "off" /\ rbEntry
  /\ exOff
  /\ lobOff

DecompressPage ==
  /\ dp_pc = "call"
  /\ dp_ret' = decompress_page_inplace(dp_src, dp_physical, dp_logical)
  /\ dp_pc' = "ret"
  /\ UNCHANGED <<dp_src, dp_physical, dp_logical>>
  /\ UNCHANGED <<in_pages, m2vars, m4vars, m3vars, opt, rbvars, exvars,
                 lobvars>>

NextPage == DecompressPage

SpecPage == InitPage /\ [][NextPage]_vars

\* ibd_decompress_page with a null reader and a null page_info on the page
\* compressed of compressed_size bytes and a buffer whose size is in
\* *decompressed_size: the result code, *decompressed_size after the call,
\* the number of bytes of page data in the buffer and the buffer
ibd_decompress_page(compressed, compressed_size, decompressed_size) ==
  LET logical_size == decompressed_size
      d == decompress_page_inplace(compressed, compressed_size, logical_size)
  IN IF d.ok
     THEN [code |-> IBD_SUCCESS, decompressed_size |-> logical_size,
           actual_size |-> d.actual_size, out |-> d.out]
     ELSE [code |-> IBD_ERROR_DECOMPRESSION,
           decompressed_size |-> decompressed_size,
           actual_size |-> d.actual_size, out |-> d.out]

\* the buffers a caller passes: of one page of 8k or 16k, and of two pages
BufferSizes == {8192, 16384, 32768}

\* one call of ibd_decompress_page: dp_logical holds the size of the buffer
InitApiPage ==
  /\ dp_src \in {MkPage(t, n, id, z) : t \in PageTypes, n \in 0..MaxPages - 1,
                                      id \in IndexIds, z \in BOOLEAN}
  /\ dp_physical \in ZipSizes
  /\ dp_logical \in BufferSizes
  /\ dp_ret = NoRet
  /\ dp_pc = "api_call"
  /\ modesOff
  /\ opt = NoOpt /\ rb_pc = "off" /\ rbEntry
  /\ exOff
  /\ lobOff

ApiDecompressPage ==
  /\ dp_pc = "api_call"
  /\ dp_ret' = ibd_decompress_page(dp_src, dp_physical, dp_logical)
  /\ dp_pc' = "api_ret"
  /\ UNCHANGED <<dp_src, dp_physical, dp_logical>>
  /\ UNCHANGED <<in_pages, m2vars, m4vars, m3vars, opt, rbvars, exvars,
                 lobvars>>

NextApiPage == ApiDecompressPage

SpecApiPage == InitApiPage /\ [][NextApiPage]_vars

----------------------------------------------------------------------------
(* Input files *)

\* a page of the file after page 0: its type, index id, whether its zip
\* stream is sound, its COMPACT bit, and how far its stored page number is
\* off its position
KindPage(k, n) ==
  [MkPage(k.type, n + k.dno, k.id, k.zok) EXCEPT !.comp = k.comp]

Kind(type, id, zok) ==
  [type |-> type, id |-> id, zok |-> zok, comp |-> TRUE, dno |-> 0]

\* the pages every mode treats alike or by type and zip stream only
BaseKinds ==
  {Kind(FIL_PAGE_INDEX, 42, TRUE), Kind(FIL_PAGE_INDEX, 43, TRUE),
   Kind(FIL_PAGE_INDEX, 42, FALSE), Kind(FIL_PAGE_RTREE, 42, TRUE),
   Kind(FIL_PAGE_RTREE, 42, FALSE), Kind(FIL_PAGE_SDI, 0, TRUE),
   Kind(FIL_PAGE_SDI, 0, FALSE), Kind(FIL_PAGE_SDI_BLOB, 0, FALSE),
   Kind(FIL_PAGE_INODE, 0, FALSE)}

\* and the INDEX pages the record extractor skips: a stored page number that
\* is not the position, a page in the REDUNDANT format
ModeKinds ==
  BaseKinds \cup
  {[Kind(FIL_PAGE_INDEX, 42, TRUE) EXCEPT !.dno = 1],
   [Kind(FIL_PAGE_INDEX, 42, TRUE) EXCEPT !.comp = FALSE]}

\* page 0: the FSP header with the space id, the flags, the (version, root)
\* pair in the SDI slot of the file's own page size, and the XDES free bits
Page0(space, flags, slot, free) ==
  [MkPage(FIL_PAGE_TYPE_FSP_HDR, 0, 0, FALSE) EXCEPT
     !.fsp = [space_id |-> space, flags |-> flags,
              sdi |-> IF slot = <<0, 0>> THEN <<>>
                      ELSE fsp_header_get_sdi_offset(page_size_t(flags))
                             :> slot,
              free |-> free]]

\* the files of 1..MaxPages pages with a page 0 of p0s and later pages of
\* kinds
FilesUpTo(p0s, kinds, max) ==
  UNION {{[k \in 1..n |-> IF k = 1 THEN p0 ELSE KindPage(ks[k - 1], k - 1)] :
            p0 \in p0s, ks \in [1..(n - 1) -> kinds]} : n \in 1..max}

FilesOf(p0s, kinds) == FilesUpTo(p0s, kinds, MaxPages)

----------------------------------------------------------------------------
(* The streaming modes: decompress (2), decrypt + decompress (4), extract   *)
(* records (3)                                                             *)

\* my_write / fwrite on a file opened for writing and never seeked: the bytes
\* go to the end; a chunk is the page number it was written for, its length
\* and the image
write_page_prepend(file, no, size, img) ==
  <<[no |-> no, size |-> size, img |-> img]>> \o file

write_page(file, no, size, img) ==
  Append(file, [no |-> no, size |-> size, img |-> img])

\* decompress_ibd up to the page loop
M2Start ==
  /\ m2_pc = "start"
  /\ IF determine_page_size(in_pages).ok
     THEN m2_pc' = "loop" /\ m2_ret' = m2_ret
     ELSE m2_pc' = "done" /\ m2_ret' = "false"
  /\ srv_page_size' = srv_page_size_after(in_pages, srv_page_size)
  /\ UNCHANGED <<m2_i, m2_out, m2_pages_failed>>
  /\ UNCHANGED <<dpvars, in_pages, m4vars, m3vars, opt, rbvars, exlocal,
                 lobvars>>

\* fetch_page on a file whose reads succeed
fetch_page(file, page_no, page_sz) ==
  decompress_page_inplace(file[page_no + 1], page_sz.physical,
                          page_sz.logical)

\* one iteration of the loop of decompress_ibd
M2Page ==
  /\ m2_pc = "loop"
  /\ m2_i < NumPages
  /\ LET pg_sz == determine_page_size(in_pages).pg_sz
         r == fetch_page(in_pages, m2_i, pg_sz)
     IN IF ~r.ok
        THEN /\ m2_pages_failed' = m2_pages_failed + 1
             /\ m2_out' = m2_out
        ELSE /\ m2_out' = write_page(m2_out, m2_i, r.actual_size, r.out)
             /\ m2_pages_failed' = m2_pages_failed
  /\ m2_i' = m2_i + 1
  /\ UNCHANGED <<m2_pc, m2_ret>>
  /\ UNCHANGED <<dpvars, in_pages, m4vars, m3vars, opt, rbvars, exvars,
                 lobvars>>

\* the end of the loop of decompress_ibd
M2Finish ==
  /\ m2_pc = "loop"
  /\ m2_i = NumPages
  /\ m2_pc' = "done"
  /\ m2_ret' = IF m2_pages_failed = 0 THEN "true" ELSE "false"
  /\ UNCHANGED <<m2_i, m2_out, m2_pages_failed>>
  /\ UNCHANGED <<dpvars, in_pages, m4vars, m3vars, opt, rbvars, exvars,
                 lobvars>>

\* the file mode 4 reads: the same tablespace with every page encrypted
\* under the tablespace key
EncryptedFile == [k \in 1..NumPages |-> EncryptPage(in_pages[k], TsKey)]

\* do_decrypt_then_decompress_main up to the page loop, with the master key
\* and the tablespace key read; it runs when mode 2 is through
M4Start ==
  /\ m2_pc = "done"
  /\ m4_pc = "start"
  /\ IF determine_page_size(EncryptedFile).ok
     THEN m4_pc' = "loop" /\ m4_ret' = m4_ret
     ELSE m4_pc' = "done" /\ m4_ret' = "1"
  /\ srv_page_size' = srv_page_size_after(EncryptedFile, srv_page_size)
  /\ UNCHANGED <<m4_page_number, m4_out>>
  /\ UNCHANGED <<dpvars, in_pages, m2vars, m3vars, opt, rbvars, exlocal,
                 lobvars>>

\* one iteration of the loop of do_decrypt_then_decompress_main
M4Page ==
  /\ m4_pc = "loop"
  /\ m4_page_number < NumPages
  /\ LET pg_sz == determine_page_size(EncryptedFile).pg_sz
         dec == decrypt_page_inplace(EncryptedFile[m4_page_number + 1], TsKey)
         cmp == decompress_page_inplace(dec.page, pg_sz.physical,
                                        pg_sz.logical)
     IN IF ~dec.ok \/ ~cmp.ok
        THEN /\ m4_pc' = "done"
             /\ m4_ret' = "1"
             /\ UNCHANGED <<m4_page_number, m4_out>>
        ELSE /\ m4_out' = write_page(m4_out, m4_page_number, cmp.actual_size,
                                    cmp.out)
             /\ m4_page_number' = m4_page_number + 1
             /\ UNCHANGED <<m4_pc, m4_ret>>
  /\ UNCHANGED <<dpvars, in_pages, m2vars, m3vars, opt, rbvars, exvars,
                 lobvars>>

\* fread returns 0 at the end of the file
M4Finish ==
  /\ m4_pc = "loop"
  /\ m4_page_number = NumPages
  /\ m4_pc' = "done"
  /\ m4_ret' = "0"
  /\ UNCHANGED <<m4_page_number, m4_out>>
  /\ UNCHANGED <<dpvars, in_pages, m2vars, m3vars, opt, rbvars, exvars,
                 lobvars>>

\* XdesCache::is_free after load_xdes_page: the files of the model are
\* shorter than an extent, so the descriptor page of every page is page 0
xdes_is_free(file, page_no) ==
  /\ file[1].type = FIL_PAGE_TYPE_FSP_HDR
  /\ file[1].page_no = 0
  /\ page_no \in file[1].fsp.free

----------------------------------------------------------------------------
(* Page checksum *)

\* ut_crc32 over a byte range, given as the values stored in it: a 16-bit
\* digest that depends on every value and on their order
ut_crc32(words) ==
  LET w == words
      h[k \in 0..Len(w)] ==
        IF k = 0 THEN 7 ELSE (h[k - 1] * 31 + (w[k] % 65521) + 1) % 65536
  IN h[Len(w)]

\* c1 ^ c2 on the digests
RECURSIVE Xor(_, _)
Xor(a, b) ==
  IF a = 0 THEN b
  ELSE IF b = 0 THEN a
  ELSE ((a + b) % 2) + 2 * Xor(a \div 2, b \div 2)

\* the (version, root page) pair at a byte offset of page 0; bytes the model
\* does not name are zero
ReadSlot(fsp, off) == IF off \in DOMAIN fsp.sdi THEN fsp.sdi[off] ELSE <<0, 0>>

WriteSlot(fsp, off, v) ==
  LET d == (DOMAIN fsp.sdi \cup {off}) \ (IF v = <<0, 0>> THEN {off} ELSE {})
  IN [fsp EXCEPT !.sdi = [o \in d |-> IF o = off THEN v ELSE fsp.sdi[o]]]

\* the SDI slot offsets of the page sizes of the model: 4k, 8k, 16k
SdiOffsets == <<2825, 5385, 10505>>

\* the values stored in the user records, one digest for each record
RECURSIVE RecWords(_, _)
RecWords(recs, k) ==
  IF k > Len(recs) THEN <<>>
  ELSE LET r == recs[k]
       IN <<ut_crc32(r.prefix
                     \o <<r.type, r.id, r.uncomp_len, r.comp_len,
                          IF r.external THEN 1 ELSE 0, r.len_bytes, r.offs,
                          r.heap_no, r.first_blob_page, r.json, r.status,
                          r.n_owned, r.next, r.ext_space, r.ext_offset,
                          r.ext_len>>)>>
          \o RecWords(recs, k + 1)

RECURSIVE FreeWord(_, _)
FreeWord(free, k) ==
  IF k > MaxPages THEN 0
  ELSE (IF k \in free THEN 2^k ELSE 0) + FreeWord(free, k + 1)

\* the values stored in bytes 4..26 and in bytes 26..38 of a page
HeaderWords(p) == <<p.page_no, p.prev, p.next, p.lsn, p.type>>
FlushSpaceWords(p) == <<p.flush, p.space>>

\* the values of the index page header, of infimum and supremum and of the
\* directory
HdrWords(h) ==
  <<h.n_dir_slots, h.heap_top, h.n_heap, h.n_recs, h.level, h.inf.n_owned,
    h.inf.status, h.inf.next, h.sup.n_owned, h.sup.status, h.sup.next>>
  \o h.dir

\* the values stored in bytes 38..size-8 of a page
BodyWords(p) ==
  <<p.fsp.space_id, p.fsp.flags, FreeWord(p.fsp.free, 0)>>
  \o [k \in 1..6 |-> ReadSlot(p.fsp, SdiOffsets[(k + 1) \div 2])[2 - (k % 2)]]
  \o <<p.index_id, p.fseg, p.data, IF p.zok THEN 1 ELSE 0,
       IF p.expanded THEN 1 ELSE 0, p.cipher, IF p.comp THEN 1 ELSE 0>>
  \o (IF Len(p.lob) = 0 THEN <<>>
      ELSE <<p.lob[1].part_len, p.lob[1].next_page, p.lob[1].json,
             p.lob[1].offset>>)
  \o HdrWords(p.hdr)
  \o RecWords(p.recs, 1)
  \o p.oldtr

calc_page_crc32(page) ==
  LET c1 == ut_crc32(HeaderWords(page))
      c2 == ut_crc32(BodyWords(page))
  IN Xor(c1, c2)

stamp_page_lsn_and_crc32_early(page, lsn) ==
  LET checksum == calc_page_crc32(page)
  IN [page EXCEPT !.lsn = lsn, !.tlsn = lsn, !.chk = checksum,
                  !.tchk = checksum]

stamp_page_lsn_and_crc32(page, lsn) ==
  LET p1 == [page EXCEPT !.lsn = lsn, !.tlsn = lsn]
      checksum == calc_page_crc32(p1)
  IN [p1 EXCEPT !.chk = checksum, !.tchk = checksum]

----------------------------------------------------------------------------
(* Page 0 of an uncompressed tablespace *)

update_tablespace_header_for_uncompressed_keepOld(page, page_size) ==
  LET space == page.fsp.space_id
      old_flags == page.fsp.flags
      new_flags == old_flags - FSP_FLAGS_GET_ZIP_SSIZE(old_flags) * 2
                             - FSP_FLAGS_GET_PAGE_SSIZE(old_flags) * 64
      old_sdi_offset == fsp_header_get_sdi_offset(page_size_t(old_flags))
      new_sdi_offset == fsp_header_get_sdi_offset(page_size_t(new_flags))
      slot == ReadSlot(page.fsp, old_sdi_offset)
      moved == IF /\ FSP_FLAGS_HAS_SDI(old_flags)
                  /\ old_sdi_offset # new_sdi_offset
                  /\ slot[1] # 0
               THEN WriteSlot(page.fsp, new_sdi_offset, slot)
               ELSE page.fsp
  IN IF page_size # UNIV_PAGE_SIZE_ORIG \/ space = 0 \/ space = SPACE_UNKNOWN
        \/ ~fsp_flags_is_valid(old_flags)
     THEN [ok |-> FALSE, page |-> page, space_id |-> SPACE_UNKNOWN]
     ELSE [ok |-> TRUE,
           page |-> [page EXCEPT !.fsp = [moved EXCEPT !.flags = new_flags,
                                                       !.space_id = space]],
           space_id |-> space]

\* the result of one call: the return value, the page and *out_space_id
update_tablespace_header_for_uncompressed(page, page_size) ==
  LET space == page.fsp.space_id
      old_flags == page.fsp.flags
      new_flags == old_flags - FSP_FLAGS_GET_ZIP_SSIZE(old_flags) * 2
                             - FSP_FLAGS_GET_PAGE_SSIZE(old_flags) * 64
      old_sdi_offset == fsp_header_get_sdi_offset(page_size_t(old_flags))
      new_sdi_offset == fsp_header_get_sdi_offset(page_size_t(new_flags))
      slot == ReadSlot(page.fsp, old_sdi_offset)
      moved == IF /\ FSP_FLAGS_HAS_SDI(old_flags)
                  /\ old_sdi_offset # new_sdi_offset
                  /\ slot[1] # 0
               THEN WriteSlot(WriteSlot(page.fsp, new_sdi_offset, slot),
                              old_sdi_offset, <<0, 0>>)
               ELSE page.fsp
  IN IF page_size # UNIV_PAGE_SIZE_ORIG \/ space = 0 \/ space = SPACE_UNKNOWN
        \/ ~fsp_flags_is_valid(old_flags)
     THEN [ok |-> FALSE, page |-> page, space_id |-> SPACE_UNKNOWN]
     ELSE [ok |-> TRUE,
           page |-> [page EXCEPT !.fsp = [moved EXCEPT !.flags = new_flags,
                                                       !.space_id = space]],
           space_id |-> space]

----------------------------------------------------------------------------
(* SDI root page and SDI blob pages *)

collect_sdi_blob_pages_shifted(file) ==
  LET types == [k \in 1..Len(file) |-> file[k].type]
      hit == {k \in 1..Len(file) :
                types[k] \in {FIL_PAGE_SDI_BLOB, FIL_PAGE_SDI_ZBLOB}}
  IN [i \in 1..Cardinality(hit) |->
        CHOOSE k \in hit : Cardinality({j \in hit : j < k}) = i - 1]

\* the page numbers of the SDI blob pages of the input, in file order
collect_sdi_blob_pages(file) ==
  LET types == [k \in 1..Len(file) |-> file[k].type]
      hit == {k \in 1..Len(file) :
                types[k] \in {FIL_PAGE_SDI_BLOB, FIL_PAGE_SDI_ZBLOB}}
  IN [i \in 1..Cardinality(hit) |->
        (CHOOSE k \in hit : Cardinality({j \in hit : j < k}) = i - 1) - 1]

sdi_blob_payload_size(page_size) ==
  IF page_size <= FIL_PAGE_DATA + kSdiLobHdrSize + FIL_PAGE_END_LSN_OLD_CHKSUM
  THEN 0
  ELSE page_size - FIL_PAGE_DATA - kSdiLobHdrSize - FIL_PAGE_END_LSN_OLD_CHKSUM

Min(a, b) == IF a < b THEN a ELSE b

\* alloc->next after (*alloc->pages)[alloc->next++]
alloc_next_stuck(alloc) == alloc.next
alloc_next(alloc) == alloc.next + 1

\* the loop of emit_sdi_blob_chain; alloc is the SdiBlobAlloc (pages, next,
\* page_size, space_id, out_pages), comp the compressed document (its json
\* and its length)
RECURSIVE emit_sdi_blob_chain_from(_, _, _, _, _)
emit_sdi_blob_chain_from(alloc, comp, remaining, offset, first_page) ==
  IF remaining = 0
  THEN [ok |-> TRUE, first_page |-> first_page, alloc |-> alloc]
  ELSE IF alloc.next >= Len(alloc.pages)
  THEN [ok |-> FALSE, first_page |-> first_page, alloc |-> alloc]
  ELSE
    LET page_no == alloc.pages[alloc.next + 1]
        next == alloc_next(alloc)
        part_len == Min(sdi_blob_payload_size(alloc.page_size), remaining)
        next_page == IF remaining > part_len /\ next < Len(alloc.pages)
                     THEN alloc.pages[next + 1] ELSE FIL_NULL
        page == [ZeroPage EXCEPT
                   !.page_no = page_no, !.prev = FIL_NULL, !.next = FIL_NULL,
                   !.type = FIL_PAGE_SDI_BLOB, !.space = alloc.space_id,
                   !.lob = <<[part_len |-> part_len, next_page |-> next_page,
                              json |-> comp.json, offset |-> offset]>>]
        stamped == stamp_page_lsn_and_crc32(page, 0)
        out == [n \in DOMAIN alloc.out_pages \cup {page_no} |->
                  IF n = page_no THEN stamped ELSE alloc.out_pages[n]]
    IN emit_sdi_blob_chain_from(
         [alloc EXCEPT !.next = next, !.out_pages = out], comp,
         remaining - part_len, offset + part_len,
         IF first_page = FIL_NULL THEN page_no ELSE first_page)

emit_sdi_blob_chain_onePage(alloc, comp) ==
  IF ~alloc.present \/ sdi_blob_payload_size(alloc.page_size) = 0
     \/ comp.comp_len = 0
  THEN [ok |-> FALSE, first_page |-> FIL_NULL, alloc |-> alloc]
  ELSE emit_sdi_blob_chain_from(
         alloc, comp,
         Min(comp.comp_len, sdi_blob_payload_size(alloc.page_size)), 0,
         FIL_NULL)

\* the result of one call: the return value, *first_page_out and the
\* allocator
emit_sdi_blob_chain(alloc, comp) ==
  IF ~alloc.present \/ sdi_blob_payload_size(alloc.page_size) = 0
     \/ comp.comp_len = 0
  THEN [ok |-> FALSE, first_page |-> FIL_NULL, alloc |-> alloc]
  ELSE emit_sdi_blob_chain_from(alloc, comp, comp.comp_len, 0, FIL_NULL)

\* the loop of build_dir_groups and its last push_back
RECURSIVE build_dir_groups_from(_)
build_dir_groups_from(remaining) ==
  IF remaining > PAGE_DIR_SLOT_MAX_N_OWNED
  THEN <<PAGE_DIR_SLOT_MAX_N_OWNED>>
       \o build_dir_groups_from(remaining - PAGE_DIR_SLOT_MAX_N_OWNED)
  ELSE <<remaining>>

build_dir_groups_oneGroup(user_recs) == <<user_recs + 1>>

\* the group sizes, user records and supremum counted
build_dir_groups(user_recs) == build_dir_groups_from(user_recs + 1)

\* build_dir_groups(user_recs).size()
n_dir_groups(user_recs) == Len(build_dir_groups(user_recs))

write_compact_next_offs_absolute(rec_off, next_off) == next_off

\* mach_write_to_2(rec - REC_NEXT, diff): the delta as a uint16_t
write_compact_next_offs(rec_off, next_off) ==
  IF next_off # 0 THEN (next_off - rec_off + 65536) % 65536 ELSE 0

\* rec_index at "rec_index += group - 1" in the iteration of group g
RECURSIVE dir_owner_index(_, _)
dir_owner_index(groups, g) ==
  IF g = 0 THEN -1 ELSE dir_owner_index(groups, g - 1) + groups[g]

init_empty_sdi_page(page_no) ==
  [ZeroPage EXCEPT !.page_no = page_no, !.prev = FIL_NULL, !.next = FIL_NULL,
                   !.type = FIL_PAGE_SDI, !.comp = TRUE, !.hdr = EmptyHdr]

sdi_use_external_always(comp_len, heap_top, dir_start) == TRUE

\* use_external before "if (use_external)": the compressed bytes are too long
\* for the length prefix, or the record with them does not fit
sdi_use_external(comp_len, heap_top, dir_start) ==
  IF comp_len > 16383 THEN TRUE
  ELSE heap_top + kSdiRecHeaderSize + (IF comp_len <= 127 THEN 1 ELSE 2)
       + kSdiRecOffVar + comp_len > dir_start

\* the loop over the entries of populate_sdi_root_page: entry i + 1 is laid
\* at heap_top, inline or as a reference to a blob chain
RECURSIVE populate_sdi_root_page_from(_, _, _, _, _, _)
populate_sdi_root_page_from(entries, i, heap_top, dir_start, recs, alloc) ==
  IF i >= Len(entries)
  THEN [ok |-> TRUE, recs |-> recs, heap_top |-> heap_top, alloc |-> alloc]
  ELSE
    LET e == entries[i + 1]
        comp_len == e.comp_len
        in_len_bytes == IF comp_len <= 127 THEN 1 ELSE 2
        in_rec_size == kSdiRecHeaderSize + in_len_bytes + kSdiRecOffVar
                       + comp_len
        use_external == sdi_use_external(comp_len, heap_top, dir_start)
        len_bytes == IF use_external THEN 2 ELSE in_len_bytes
        rec_size == IF use_external
                    THEN kSdiRecHeaderSize + 2 + kSdiRecOffVar
                         + kSdiExternRefSize
                    ELSE in_rec_size
        chain == emit_sdi_blob_chain(alloc, e)
        fail == [ok |-> FALSE, recs |-> recs, heap_top |-> heap_top,
                 alloc |-> alloc]
    IN IF use_external /\ ~alloc.present THEN fail
       ELSE IF heap_top + rec_size > dir_start THEN fail
       ELSE IF use_external /\ (~chain.ok \/ chain.first_page = FIL_NULL)
       THEN fail
       ELSE populate_sdi_root_page_from(
              entries, i + 1, heap_top + rec_size, dir_start,
              Append(recs,
                     [type |-> e.type, id |-> e.id,
                      uncomp_len |-> e.uncomp_len, comp_len |-> comp_len,
                      external |-> use_external, len_bytes |-> len_bytes,
                      prefix |-> IF use_external THEN <<0, 192>>
                                 ELSE IF len_bytes = 1 THEN <<comp_len>>
                                 ELSE <<comp_len % 256,
                                        (comp_len \div 256) + 128>>,
                      offs |-> heap_top + len_bytes + kSdiRecHeaderSize,
                      heap_no |-> PAGE_HEAP_NO_USER_LOW + i,
                      status |-> REC_STATUS_ORDINARY, n_owned |-> 0,
                      next |-> 0,
                      first_blob_page |-> IF use_external
                                          THEN chain.first_page ELSE FIL_NULL,
                      ext_space |-> IF use_external THEN alloc.space_id
                                    ELSE 0,
                      ext_offset |-> IF use_external THEN FIL_PAGE_DATA
                                     ELSE 0,
                      ext_len |-> IF use_external THEN comp_len ELSE 0,
                      json |-> IF use_external THEN 0 ELSE e.json]),
              IF use_external THEN chain.alloc ELSE alloc)

\* the part of populate_sdi_root_page after the loop over the entries: the
\* page header, the next pointers, n_owned of the group owners and the
\* directory slots; r is what the loop over the entries left
populate_sdi_root_page_link(page, groups, r) ==
  LET n == Len(r.recs)
      owners == [g \in 1..Len(groups) |-> dir_owner_index(groups, g)]
      next_off(k) == IF k < n THEN r.recs[k + 1].offs ELSE PAGE_NEW_SUPREMUM
      linked ==
        [k \in 1..n |->
           [r.recs[k] EXCEPT
              !.next = write_compact_next_offs(r.recs[k].offs, next_off(k)),
              !.n_owned = IF \E g \in 1..Len(groups) : owners[g] = k - 1
                          THEN groups[CHOOSE g \in 1..Len(groups) :
                                        owners[g] = k - 1]
                          ELSE 0]]
      sup_groups == {g \in 1..Len(groups) : owners[g] >= n}
      hdr ==
        [n_dir_slots |-> 1 + Len(groups), heap_top |-> r.heap_top,
         n_heap |-> 32768 + PAGE_HEAP_NO_USER_LOW + n, n_recs |-> n,
         level |-> 0,
         inf |-> [page.hdr.inf EXCEPT
                    !.n_owned = 1,
                    !.next = write_compact_next_offs(PAGE_NEW_INFIMUM,
                                                     next_off(0))],
         sup |-> [page.hdr.sup EXCEPT
                    !.n_owned = IF sup_groups = {} THEN page.hdr.sup.n_owned
                                ELSE groups[CHOOSE g \in sup_groups :
                                              \A h \in sup_groups : h <= g],
                    !.next = write_compact_next_offs(PAGE_NEW_SUPREMUM, 0)],
         dir |-> <<PAGE_NEW_INFIMUM>>
                 \o [g \in 1..Len(groups) |->
                       IF owners[g] < n THEN r.recs[owners[g] + 1].offs
                       ELSE PAGE_NEW_SUPREMUM]]
  IN [page EXCEPT !.recs = linked, !.hdr = hdr, !.index_id = UINT64_MAX]

\* the result of one call: the return value, the page and the allocator; a
\* call that fails leaves the records it had laid
populate_sdi_root_page(page, page_size, entries, alloc) ==
  LET groups == build_dir_groups(Len(entries))
      n_slots == 1 + n_dir_groups(Len(entries))
      dir_start == page_size - PAGE_DIR - PAGE_DIR_SLOT_SIZE * n_slots
      r == populate_sdi_root_page_from(entries, 0, PAGE_NEW_SUPREMUM_END,
                                       dir_start, <<>>, alloc)
  IN [ok |-> r.ok,
      page |-> IF r.ok THEN populate_sdi_root_page_link(page, groups, r)
               ELSE [page EXCEPT !.recs = r.recs],
      alloc |-> r.alloc]

----------------------------------------------------------------------------
(* Rebuild to an uncompressed tablespace (mode 5) *)

\* out_buf after decompress_page_inplace: a page passed through at physical
\* size lies at the start of the zeroed logical-size buffer, so its old
\* trailer is inside the body and the trailer of the buffer is zero
out_buf_image(d, logical_size) ==
  IF d.actual_size >= logical_size \/ ~d.ok THEN d.out
  ELSE [d.out EXCEPT !.oldtr = <<d.out.tchk, d.out.tlsn>>,
                     !.tchk = 0, !.tlsn = 0]

apply_index_id_remap_twice(page, index_id_remap) ==
  LET once(id) == IF id \in DOMAIN index_id_remap THEN index_id_remap[id]
                  ELSE id
  IN IF DOMAIN index_id_remap # {}
        /\ page.type \in {FIL_PAGE_INDEX, FIL_PAGE_RTREE}
     THEN [page EXCEPT !.index_id = once(once(page.index_id))]
     ELSE page

\* the index-id remap step of the page loop
apply_index_id_remap(page, index_id_remap) ==
  IF /\ DOMAIN index_id_remap # {}
     /\ page.type \in {FIL_PAGE_INDEX, FIL_PAGE_RTREE}
     /\ page.index_id \in DOMAIN index_id_remap
  THEN [page EXCEPT !.index_id = index_id_remap[page.index_id]]
  ELSE page

\* the SDI root page the page-0 branch chooses from the source header and the
\* target options
choose_sdi_root(o, source_sdi_root_page) ==
  LET target_set == /\ o.target_sdi_root_set
                    /\ o.target_sdi_root_page # 0
                    /\ o.target_sdi_root_page # FIL_NULL
      chosen == IF target_set
                   /\ o.target_sdi_root_page # source_sdi_root_page
                THEN IF o.use_target_sdi_root THEN o.target_sdi_root_page
                     ELSE source_sdi_root_page
                ELSE IF o.use_target_sdi_root /\ target_set
                     THEN o.target_sdi_root_page
                     ELSE source_sdi_root_page
  IN IF o.use_source_sdi_root THEN source_sdi_root_page ELSE chosen

\* The body of the page loop, from decompress_page_inplace to
\* stamp_page_lsn_and_crc32, in its four parts; each part hands what it
\* computed to the next.  The result is the first failure (err), the page to
\* write (img) and the locals the iteration leaves; loc holds the locals it
\* finds.

\* the remap, the space id write and the stamp, and the failure checks in the
\* order of the code; rt is the SDI root chosen, u the result of the header
\* update, pop the result of the SDI root rebuild
rebuild_page_finish(o, num_pages, page_no, in_buf, d, rt, u, pop) ==
  LET first == page_no = 0
      is_root == o.have_json /\ rt.set /\ page_no = rt.root
      remapped == apply_index_id_remap(pop.page, o.index_id_remap)
  IN [err |-> IF ~d.ok THEN "decompress"
              ELSE IF first /\ o.have_json
                      /\ ~FSP_FLAGS_HAS_SDI(in_buf.fsp.flags)
              THEN "no_sdi_flag"
              ELSE IF first /\ ~u.ok THEN "header"
              ELSE IF first /\ o.have_json
                      /\ (~rt.set \/ rt.root >= num_pages)
              THEN "sdi_root"
              ELSE IF u.space_id = SPACE_UNKNOWN THEN "space_id"
              ELSE IF is_root /\ ~pop.ok THEN "sdi_populate"
              ELSE "none",
      img |-> stamp_page_lsn_and_crc32([remapped EXCEPT !.space = u.space_id],
                                       0),
      space_id |-> u.space_id, sdi_root_page |-> rt.root,
      sdi_root_set |-> rt.set, sdi_blob_output |-> pop.alloc.out_pages]

\* the SDI slot write of page 0 and the rebuild of the SDI root page
rebuild_page_sdi(o, num_pages, pg_sz, page_no, loc, in_buf, d, rt, u) ==
  LET alloc == [present |-> Len(loc.sdi_blob_pages) > 0,
                pages |-> loc.sdi_blob_pages, next |-> 0,
                page_size |-> pg_sz.logical, space_id |-> u.space_id,
                out_pages |-> loc.sdi_blob_output]
  IN rebuild_page_finish(
       o, num_pages, page_no, in_buf, d, rt, u,
       IF o.have_json /\ rt.set /\ page_no = rt.root
       THEN populate_sdi_root_page(
              [init_empty_sdi_page(page_no) EXCEPT !.fseg = u.page.fseg],
              pg_sz.logical, o.sdi_entries, alloc)
       ELSE [ok |-> TRUE,
             page |-> IF page_no = 0 /\ o.have_json
                      THEN [u.page EXCEPT !.fsp =
                              WriteSlot(u.page.fsp,
                                        fsp_header_get_sdi_offset(
                                          page_size_t(u.page.fsp.flags)),
                                        <<SDI_VERSION, rt.root>>)]
                      ELSE u.page,
             alloc |-> alloc])

\* the page-0 branch: the SDI root choice and the header update; on a later
\* page the locals stay
rebuild_page_header(o, num_pages, pg_sz, page_no, loc, in_buf, d) ==
  LET source_root ==
        ReadSlot(in_buf.fsp,
                 fsp_header_get_sdi_offset(page_size_t(in_buf.fsp.flags)))[2]
      root == choose_sdi_root(o, source_root)
  IN rebuild_page_sdi(
       o, num_pages, pg_sz, page_no, loc, in_buf, d,
       IF page_no = 0 /\ o.have_json
       THEN [root |-> root, set |-> root # 0 /\ root # FIL_NULL]
       ELSE [root |-> loc.sdi_root_page, set |-> loc.sdi_root_set],
       IF page_no = 0
       THEN update_tablespace_header_for_uncompressed(
              out_buf_image(d, pg_sz.logical), pg_sz.logical)
       ELSE [ok |-> TRUE, page |-> out_buf_image(d, pg_sz.logical),
             space_id |-> loc.space_id])

rebuild_page(o, file, pg_sz, page_no, loc) ==
  rebuild_page_header(
    o, Len(file), pg_sz, page_no, loc, file[page_no + 1],
    decompress_page_inplace(file[page_no + 1], pg_sz.physical,
                            pg_sz.logical))

\* an element of the array of an SDI JSON file: the "ibd2sdi" string, an
\* object with type, id and object, an object that lacks one of them, an
\* object whose id is no number.  e is the SdiEntry of an object: its type,
\* its id, the text the writer makes of its "object" member (json, of
\* uncomp_len bytes) and the length compress2 gives that text (comp_len)
NoEntry == [type |-> 0, id |-> 0, json |-> 0, uncomp_len |-> 0, comp_len |-> 0]
DocString == [kind |-> "string", e |-> NoEntry]
DocObject(e) == [kind |-> "object", e |-> e]
DocNoMember(e) == [kind |-> "no_member", e |-> e]
DocBadId(e) == [kind |-> "bad_id", e |-> e]

\* the entries pushed by the loop over the array, in file order
RECURSIVE sdi_doc_entries(_)
sdi_doc_entries(doc) ==
  IF doc = <<>> THEN <<>>
  ELSE (IF doc[1].kind = "object" THEN <<doc[1].e>> ELSE <<>>)
       \o sdi_doc_entries(Tail(doc))

\* the comparison of the std::sort call
sdi_entry_less(a, b) ==
  IF a.type # b.type THEN a.type < b.type ELSE a.id < b.id

\* std::sort: the orders it may leave; entries that compare equal come in
\* any order
RECURSIVE sort_sdi_entries(_)
sort_sdi_entries(es) ==
  IF es = <<>> THEN {<<>>}
  ELSE LET least == {i \in 1..Len(es) :
                       \A j \in 1..Len(es) : ~sdi_entry_less(es[j], es[i])}
           without(i) == [k \in 1..(Len(es) - 1) |->
                           IF k < i THEN es[k] ELSE es[k + 1]]
       IN UNION {{<<es[i]>> \o t : t \in sort_sdi_entries(without(i))} :
                   i \in least}

\* the return value and the values entries may have after the call
load_sdi_json_entries(doc) ==
  [ok |-> Len(sdi_doc_entries(doc)) > 0,
   entries |-> sort_sdi_entries(sdi_doc_entries(doc))]

\* return false, with the diagnostic printed
RbFail(err) ==
  /\ rb_pc' = "done"
  /\ rb_ret' = "false"
  /\ rb_err' = err
  /\ UNCHANGED <<rb_page_no, out_file, space_id, sdi_root_page, sdi_root_set,
                 sdi_blob_pages, sdi_blob_output, blob_written>>

\* rebuild_uncompressed_ibd up to the page loop; in a run of all modes it
\* runs when mode 3 is through
RbStart ==
  /\ rb_pc = "start"
  /\ m3_pc \in {"done", "off"}
  /\ LET ps == determine_page_size(in_pages)
         ld == load_sdi_json_entries(opt.sdi_doc)
     IN IF ~ps.ok THEN RbFail("page_size") /\ UNCHANGED opt
        ELSE IF ps.pg_sz.physical >= ps.pg_sz.logical
        THEN RbFail("not_compressed") /\ UNCHANGED opt
        ELSE IF ps.pg_sz.logical # UNIV_PAGE_SIZE_ORIG
        THEN RbFail("logical_size") /\ UNCHANGED opt
        ELSE IF opt.have_json /\ ~ld.ok
        THEN RbFail("sdi_json") /\ UNCHANGED opt
        ELSE IF opt.use_target_sdi_root /\ ~opt.target_sdi_root_set
        THEN RbFail("target_sdi_root") /\ UNCHANGED opt
        ELSE /\ rb_pc' = "loop"
             /\ \E es \in (IF opt.have_json THEN ld.entries ELSE {<<>>}) :
                  opt' = [opt EXCEPT !.sdi_entries = es]
             /\ sdi_blob_pages' = IF opt.have_json
                                  THEN collect_sdi_blob_pages(in_pages)
                                  ELSE <<>>
             /\ UNCHANGED <<rb_ret, rb_err, rb_page_no, out_file, space_id,
                            sdi_root_page, sdi_root_set, sdi_blob_output,
                            blob_written>>
  /\ srv_page_size' = srv_page_size_after(in_pages, srv_page_size)
  /\ UNCHANGED <<dpvars, in_pages, m2vars, m4vars, m3vars, exlocal, lobvars>>

\* whether an iteration of the page loop returns false: the read failed, a
\* step of the body failed, or the write failed
page_step_fails_lenient(io, r) == io # "ok" \/ r.err \notin {"none", "decompress"}

page_step_fails(io, r) == io # "ok" \/ r.err # "none"

\* what the disk does in one iteration
IoOutcomes == {"ok", "read_fails", "write_fails"}

\* one iteration of the page loop; io is what the disk does in it
RbPage ==
  /\ rb_pc = "loop"
  /\ rb_page_no < NumPages
  /\ LET pg_sz == determine_page_size(in_pages).pg_sz
         r == rebuild_page(opt, in_pages, pg_sz, rb_page_no,
                           [space_id |-> space_id,
                            sdi_root_page |-> sdi_root_page,
                            sdi_root_set |-> sdi_root_set,
                            sdi_blob_pages |-> sdi_blob_pages,
                            sdi_blob_output |-> sdi_blob_output])
     IN \E io \in IoOutcomes :
          IF page_step_fails(io, r)
          THEN RbFail(IF io = "read_fails" THEN "read"
                      ELSE IF r.err # "none" THEN r.err ELSE "write")
          ELSE /\ out_file' = write_page(out_file, rb_page_no, pg_sz.logical,
                                         r.img)
               /\ rb_page_no' = rb_page_no + 1
               /\ space_id' = r.space_id
               /\ sdi_root_page' = r.sdi_root_page
               /\ sdi_root_set' = r.sdi_root_set
               /\ sdi_blob_output' = r.sdi_blob_output
               /\ rb_pc' = IF rb_page_no + 1 = NumPages THEN "blobs"
                           ELSE "loop"
               /\ UNCHANGED <<rb_ret, rb_err, sdi_blob_pages, blob_written>>
  /\ UNCHANGED <<dpvars, in_pages, m2vars, m4vars, m3vars, opt, exvars,
                 lobvars>>

\* my_seek to page_no * logical_size and my_write there: inside the file the
\* chunk replaces the one at that place, past its end the file grows
write_page_at(file, page_no, size, img) ==
  LET chunk == [no |-> page_no, size |-> size, img |-> img]
  IN IF page_no < Len(file) THEN [file EXCEPT ![page_no + 1] = chunk]
     ELSE [k \in 1..(page_no + 1) |->
             IF k <= Len(file) THEN file[k]
             ELSE IF k = page_no + 1 THEN chunk
             ELSE [no |-> k - 1, size |-> size, img |-> ZeroPage]]

\* one iteration of the loop over sdi_blob_output, an unordered_map: any
\* entry not yet visited comes next
RbBlob ==
  /\ rb_pc = "blobs"
  /\ \E page_no \in DOMAIN sdi_blob_output \ blob_written,
        io \in {"ok", "write_fails"} :
       LET pg_sz == determine_page_size(in_pages).pg_sz
       IN IF io # "ok" THEN RbFail("blob_write")
          ELSE /\ out_file' = write_page_at(out_file, page_no, pg_sz.logical,
                                            sdi_blob_output[page_no])
               /\ blob_written' = blob_written \cup {page_no}
               /\ UNCHANGED <<rb_pc, rb_ret, rb_err, rb_page_no, space_id,
                              sdi_root_page, sdi_root_set, sdi_blob_pages,
                              sdi_blob_output>>
  /\ UNCHANGED <<dpvars, in_pages, m2vars, m4vars, m3vars, opt, exvars,
                 lobvars>>

\* return true
RbFinish ==
  /\ rb_pc = "blobs"
  /\ DOMAIN sdi_blob_output = blob_written
  /\ rb_pc' = "done"
  /\ rb_ret' = "true"
  /\ UNCHANGED <<rb_err, rb_page_no, out_file, space_id, sdi_root_page,
                 sdi_root_set, sdi_blob_pages, sdi_blob_output, blob_written>>
  /\ UNCHANGED <<dpvars, in_pages, m2vars, m4vars, m3vars, opt, exvars,
                 lobvars>>

----------------------------------------------------------------------------
(* The record walk of a COMPACT page *)

\* the record header at a byte offset of a page: infimum, supremum, a user
\* record, or bytes the model does not name, which are zero
rec_at(page, off) ==
  IF off = PAGE_NEW_INFIMUM THEN page.hdr.inf
  ELSE IF off = PAGE_NEW_SUPREMUM THEN page.hdr.sup
  ELSE IF \E k \in DOMAIN page.recs : page.recs[k].offs = off
  THEN LET r == page.recs[CHOOSE k \in DOMAIN page.recs :
                            page.recs[k].offs = off]
       IN [n_owned |-> r.n_owned, status |-> r.status, next |-> r.next]
  ELSE [n_owned |-> 0, status |-> 0, next |-> 0]

\* static_cast<int16_t> of a uint16_t
int16_t(u) == IF u >= 32768 THEN u - 65536 ELSE u

\* the return value and *next_offset
next_compact_rec_offset(page, rec_offset, page_size) ==
  LET delta == int16_t(rec_at(page, rec_offset).next)
      raw == rec_offset + delta
      mod == raw % page_size
  IN IF rec_offset < REC_NEXT \/ rec_offset >= page_size
     THEN [ok |-> FALSE, next_offset |-> 0]
     ELSE IF delta = 0 THEN [ok |-> FALSE, next_offset |-> 0]
     ELSE IF mod < PAGE_NEW_INFIMUM \/ mod >= page_size
     THEN [ok |-> FALSE, next_offset |-> 0]
     ELSE [ok |-> TRUE, next_offset |-> mod]

walk_max_steps_noCap(page, page_size) == page_size * page_size

\* max_steps of the walk
walk_max_steps(page, page_size) ==
  LET by_size == page_size \div (REC_N_NEW_EXTRA_BYTES + 1)
  IN IF by_size < page.hdr.n_recs + 2 THEN page.hdr.n_recs + 2 ELSE by_size

\* one evaluation of the loop condition and, if it holds, one iteration of
\* the loop from infimum to supremum; seen holds the offsets of the records
\* of status ORDINARY the loop came to, halt says how the loop ended
walk_step(page, page_size, st) ==
  LET status == rec_at(page, st.rec_offset).status
      seen == IF status = REC_STATUS_ORDINARY
              THEN Append(st.seen, st.rec_offset) ELSE st.seen
      nx == next_compact_rec_offset(page, st.rec_offset, page_size)
  IN IF st.steps >= walk_max_steps(page, page_size)
     THEN [st EXCEPT !.halt = "max_steps"]
     ELSE IF status = REC_STATUS_SUPREMUM
     THEN [st EXCEPT !.halt = "supremum"]
     ELSE IF ~nx.ok THEN [st EXCEPT !.seen = seen, !.halt = "no_next"]
     ELSE IF nx.next_offset = st.rec_offset \/ nx.next_offset >= page_size
     THEN [st EXCEPT !.seen = seen, !.halt = "loop"]
     ELSE [st EXCEPT !.seen = seen, !.rec_offset = nx.next_offset,
                     !.steps = st.steps + 1]

\* the loop run to its end
RECURSIVE walk_records(_, _, _)
walk_records(page, page_size, st) ==
  IF st.halt # "none" THEN st
  ELSE walk_records(page, page_size, walk_step(page, page_size, st))

----------------------------------------------------------------------------
(* Record extraction: do_parse_main and the table iterator of the library *)

is_target_index_anyIndex(page, ctx) == TRUE

is_target_index(page, ctx) ==
  IF ~ctx.target_index_set THEN FALSE
  ELSE page.index_id = ctx.target_index_id

\* what the validation of a record reads at a byte offset: the deleted flag,
\* whether ibrec_init_offsets_new accepts the length bytes, the data size and
\* whether check_fields_sizes accepts the fields; bytes the model does not
\* name are zero
rec_data_at(page, off) ==
  IF \E k \in DOMAIN page.recs :
       page.recs[k].offs = off /\ "deleted" \in DOMAIN page.recs[k]
  THEN LET r == page.recs[CHOOSE k \in DOMAIN page.recs :
                            page.recs[k].offs = off]
       IN [deleted |-> r.deleted, offs_ok |-> r.offs_ok,
           data_size |-> r.data_size, fields_ok |-> r.fields_ok]
  ELSE [deleted |-> FALSE, offs_ok |-> TRUE, data_size |-> 0,
        fields_ok |-> TRUE]

\* ibrec_init_offsets_new on a record of ordinary status: the length bytes
\* are accepted and no field ends more than UNIV_PAGE_SIZE bytes after the
\* start of the page; the fields end in ascending order, the last one
\* data_size bytes after the origin of the record
ibrec_init_offsets_new(page, rec_offset, UNIV_PAGE_SIZE) ==
  LET d == rec_data_at(page, rec_offset)
  IN d.offs_ok /\ rec_offset + d.data_size <= UNIV_PAGE_SIZE

\* check_for_a_record where the macro UNIV_PAGE_SIZE gives UNIV_PAGE_SIZE;
\* min_hdr is table->min_rec_header_len + record_extra_bytes
check_for_a_record_under(page, rec_offset, tbl, UNIV_PAGE_SIZE) ==
  LET d == rec_data_at(page, rec_offset)
  IN /\ rec_offset >= tbl.min_hdr
     /\ ibrec_init_offsets_new(page, rec_offset, UNIV_PAGE_SIZE)
     /\ d.data_size <= tbl.data_max_size
     /\ d.data_size >= tbl.data_min_size
     /\ d.fields_ok

\* UNIV_PAGE_SIZE is the global srv_page_size
check_for_a_record(page, rec_offset, tbl) ==
  check_for_a_record_under(page, rec_offset, tbl, srv_page_size)

\* the checks of parse_records_on_page and of parse_records_with_callback
\* before the loop
is_target_leaf(page, ctx) ==
  /\ is_target_index(page, ctx)
  /\ page.hdr.level = 0
  /\ page.comp

\* a row: RowMeta of process_ibrec, page_no, rec_offset and deleted of
\* parsed_row_t
Row(page_no, rec_offset, deleted) ==
  [page_no |-> page_no, rec_offset |-> rec_offset, deleted |-> deleted]

parse_records_on_page_iter_stopAtInvalid(wp, st, tbl) ==
  LET status == rec_at(wp.img, st.rec_offset).status
      d == rec_data_at(wp.img, st.rec_offset)
      in_loop == st.steps < walk_max_steps(wp.img, wp.size)
      valid == check_for_a_record(wp.img, st.rec_offset, tbl)
  IN IF in_loop /\ status = REC_STATUS_ORDINARY /\ ~d.deleted /\ ~valid
     THEN [st |-> [st EXCEPT !.halt = "no_next"], rows |-> <<>>]
     ELSE [st |-> walk_step(wp.img, wp.size, st),
           rows |-> IF in_loop /\ status = REC_STATUS_ORDINARY /\ ~d.deleted
                    THEN <<Row(wp.no, st.rec_offset, FALSE)>> ELSE <<>>]

\* one evaluation of the loop condition of parse_records_on_page and, if it
\* holds, one iteration: the locals after it and the rows process_ibrec
\* printed in it (include_deleted is false)
parse_records_on_page_iter(wp, st, tbl) ==
  LET status == rec_at(wp.img, st.rec_offset).status
      d == rec_data_at(wp.img, st.rec_offset)
      in_loop == st.steps < walk_max_steps(wp.img, wp.size)
      valid == check_for_a_record(wp.img, st.rec_offset, tbl)
  IN [st |-> walk_step(wp.img, wp.size, st),
      rows |-> IF in_loop /\ status = REC_STATUS_ORDINARY /\ ~d.deleted
                  /\ valid
               THEN <<Row(wp.no, st.rec_offset, FALSE)>> ELSE <<>>]

\* row_parse_callback: the rows pushed to iter->row_queue for one parsed_row_t
row_parse_callback(row) == IF row.deleted THEN <<>> ELSE <<row>>

\* the same for the loop of parse_records_with_callback under
\* row_parse_callback, which always returns true: the rows it queued
parse_records_with_callback_iter(wp, st, tbl) ==
  LET status == rec_at(wp.img, st.rec_offset).status
      d == rec_data_at(wp.img, st.rec_offset)
      in_loop == st.steps < walk_max_steps(wp.img, wp.size)
      valid == check_for_a_record(wp.img, st.rec_offset, tbl)
  IN [st |-> walk_step(wp.img, wp.size, st),
      rows |-> IF in_loop /\ status = REC_STATUS_ORDINARY /\ valid
               THEN row_parse_callback(Row(wp.no, st.rec_offset, d.deleted))
               ELSE <<>>]

\* do_parse_main up to the page loop; it runs when mode 4 is through
M3Start ==
  /\ m4_pc \in {"done", "off"}
  /\ m3_pc = "start"
  /\ m3_pc' = IF determine_page_size(in_pages).ok THEN "loop" ELSE "done"
  /\ srv_page_size' = srv_page_size_after(in_pages, srv_page_size)
  /\ UNCHANGED <<m3_page_no, m3_parsed>>
  /\ UNCHANGED <<dpvars, in_pages, m2vars, m4vars, opt, rbvars, exlocal,
                 lobvars>>

\* one iteration of the loop of do_parse_main up to the record loop of
\* parse_records_on_page
M3Page ==
  /\ m3_pc = "loop"
  /\ m3_page_no < NumPages
  /\ LET pg_sz == determine_page_size(in_pages).pg_sz
         page_buf == in_pages[m3_page_no + 1]
         tablespace_compressed == pg_sz.physical < pg_sz.logical
         d == decompress_page_inplace(page_buf, pg_sz.physical, pg_sz.logical)
         parse_buf == IF tablespace_compressed THEN d.out ELSE page_buf
         parse_size == IF tablespace_compressed THEN pg_sz.logical
                       ELSE pg_sz.physical
         skip == \/ page_buf.page_no # m3_page_no
                 \/ xdes_is_free(in_pages, m3_page_no)
                 \/ page_buf.type # FIL_PAGE_INDEX
                 \/ (tablespace_compressed /\ ~d.ok)
                 \/ (tablespace_compressed /\ d.actual_size # pg_sz.logical)
                 \/ ~parse_buf.comp
         wp == [no |-> m3_page_no, size |-> parse_size, img |-> parse_buf]
     IN /\ m3_parsed' = IF skip THEN m3_parsed ELSE Append(m3_parsed, wp)
        /\ IF skip \/ ~is_target_leaf(parse_buf, parser_ctx)
           THEN /\ m3_page_no' = m3_page_no + 1
                /\ UNCHANGED <<m3_pc, walk_page, walk_st>>
           ELSE /\ m3_pc' = "walk"
                /\ walk_page' = wp
                /\ walk_st' = walk_start
                /\ UNCHANGED m3_page_no
  /\ UNCHANGED <<parser_ctx, table, rows_out, iter, lib_pc, lib_ret,
                 lib_log, srv_page_size>>
  /\ UNCHANGED <<dpvars, in_pages, m2vars, m4vars, opt, rbvars, lobvars>>

\* the loop of parse_records_on_page, one evaluation of its condition at a
\* time, and the rest of the iteration of do_parse_main when the loop ends
M3Walk ==
  /\ m3_pc = "walk"
  /\ LET it == parse_records_on_page_iter(walk_page, walk_st, table)
     IN /\ walk_st' = it.st
        /\ rows_out' = rows_out \o it.rows
        /\ IF it.st.halt = "none"
           THEN UNCHANGED <<m3_pc, m3_page_no>>
           ELSE m3_pc' = "loop" /\ m3_page_no' = m3_page_no + 1
  /\ UNCHANGED <<m3_parsed, parser_ctx, table, walk_page, iter, lib_pc,
                 lib_ret, lib_log, srv_page_size>>
  /\ UNCHANGED <<dpvars, in_pages, m2vars, m4vars, opt, rbvars, lobvars>>

\* my_read returns 0 at the end of the file
M3Finish ==
  /\ m3_pc = "loop"
  /\ m3_page_no = NumPages
  /\ m3_pc' = "done"
  /\ UNCHANGED <<m3_page_no, m3_parsed>>
  /\ UNCHANGED <<dpvars, in_pages, m2vars, m4vars, opt, rbvars, exvars,
                 lobvars>>

\* load_next_leaf_page from page current_page on: whether it returned true,
\* iter->current_page and iter->page_buf after it
RECURSIVE load_next_leaf_page(_, _, _, _)
load_next_leaf_page(file, pg_sz, ctx, current_page) ==
  IF current_page >= Len(file)
  THEN [found |-> FALSE, current_page |-> current_page, page_buf |-> ZeroPage]
  ELSE LET page_buf == file[current_page + 1]
           tablespace_compressed == pg_sz.physical < pg_sz.logical
           d == decompress_page_inplace(page_buf, pg_sz.physical,
                                        pg_sz.logical)
           page_data == IF tablespace_compressed THEN d.out ELSE page_buf
       IN IF \/ page_buf.type # FIL_PAGE_INDEX
             \/ (tablespace_compressed /\ ~d.ok)
             \/ ~page_data.comp
             \/ ~is_target_index(page_data, ctx)
             \/ page_data.hdr.level # 0
          THEN load_next_leaf_page(file, pg_sz, ctx, current_page + 1)
          ELSE [found |-> TRUE, current_page |-> current_page,
                page_buf |-> page_data]

\* ibd_read_row up to the loop of read_next_record: at the end of the table
\* it returns IBD_ERROR_FILE_READ with a null row, a queued row is returned
\* at once
LibRead ==
  /\ lib_pc = "idle"
  /\ IF iter.at_end
     THEN /\ lib_ret' = <<>>
          /\ lib_log' = LogNoRow(lib_log)
          /\ UNCHANGED <<iter, lib_pc>>
     ELSE IF iter.row_queue # <<>>
          THEN /\ lib_ret' = <<Head(iter.row_queue)>>
               /\ lib_log' = LogRow(lib_log, Head(iter.row_queue))
               /\ iter' = [iter EXCEPT !.row_queue = Tail(iter.row_queue),
                                       !.rows_read = iter.rows_read + 1]
               /\ UNCHANGED lib_pc
          ELSE lib_pc' = "load" /\ UNCHANGED <<iter, lib_ret, lib_log>>
  /\ UNCHANGED <<parser_ctx, table, walk_page, walk_st, rows_out,
                 srv_page_size>>
  /\ UNCHANGED <<dpvars, in_pages, m2vars, m4vars, m3vars, opt, rbvars,
                 lobvars>>

\* one iteration of the loop of read_next_record up to the record loop of
\* parse_records_with_callback
LibLoad ==
  /\ lib_pc = "load"
  /\ LET pg_sz == determine_page_size(in_pages).pg_sz
         ld == load_next_leaf_page(in_pages, pg_sz, parser_ctx,
                                   iter.current_page)
         page_size == IF pg_sz.physical < pg_sz.logical THEN pg_sz.logical
                      ELSE pg_sz.physical
     IN IF ~ld.found
        THEN /\ iter' = [iter EXCEPT !.current_page = ld.current_page,
                                     !.at_end = TRUE]
             /\ lib_ret' = <<>>
             /\ lib_log' = LogNoRow(lib_log)
             /\ lib_pc' = "idle"
             /\ UNCHANGED <<walk_page, walk_st>>
        ELSE IF ~is_target_leaf(ld.page_buf, parser_ctx)
        THEN /\ iter' = [iter EXCEPT !.current_page = ld.current_page + 1]
             /\ UNCHANGED <<lib_ret, lib_log, lib_pc, walk_page, walk_st>>
        ELSE /\ iter' = [iter EXCEPT !.current_page = ld.current_page]
             /\ walk_page' = [no |-> ld.current_page, size |-> page_size,
                              img |-> ld.page_buf]
             /\ walk_st' = walk_start
             /\ lib_pc' = "walk"
             /\ UNCHANGED <<lib_ret, lib_log>>
  /\ UNCHANGED <<parser_ctx, table, rows_out, srv_page_size>>
  /\ UNCHANGED <<dpvars, in_pages, m2vars, m4vars, m3vars, opt, rbvars,
                 lobvars>>

\* the loop of parse_records_with_callback, one evaluation of its condition
\* at a time, and the rest of the iteration of read_next_record when the
\* loop ends
LibWalk ==
  /\ lib_pc = "walk"
  /\ LET it == parse_records_with_callback_iter(walk_page, walk_st, table)
         queue == iter.row_queue \o it.rows
     IN /\ walk_st' = it.st
        /\ IF it.st.halt = "none"
           THEN /\ iter' = [iter EXCEPT !.row_queue = queue]
                /\ UNCHANGED <<lib_pc, lib_ret, lib_log>>
           ELSE IF queue # <<>>
           THEN /\ iter' = [iter EXCEPT
                              !.current_page = iter.current_page + 1,
                              !.row_queue = Tail(queue),
                              !.rows_read = iter.rows_read + 1]
                /\ lib_ret' = <<Head(queue)>>
                /\ lib_log' = LogRow(lib_log, Head(queue))
                /\ lib_pc' = "idle"
           ELSE /\ iter' = [iter EXCEPT
                              !.current_page = iter.current_page + 1]
                /\ lib_pc' = "load"
                /\ UNCHANGED <<lib_ret, lib_log>>
  /\ UNCHANGED <<parser_ctx, table, walk_page, rows_out, srv_page_size>>
  /\ UNCHANGED <<dpvars, in_pages, m2vars, m4vars, m3vars, opt, rbvars,
                 lobvars>>

----------------------------------------------------------------------------
(* The SDI reader *)

\* the length compress2 gives the text of a document, and the length of the
\* text; a text is named by a number
compress2_len(json) ==
  IF json \in {2, 4} THEN 16300
  ELSE IF json \in {3, 5} THEN 20000
  ELSE IF json \in 21..29 THEN 8000
  ELSE 100

json_size(json) ==
  IF json \in {2, 4} THEN 70000
  ELSE IF json \in {3, 5} THEN 90000
  ELSE IF json \in 21..29 THEN 30000
  ELSE 400

\* the SdiEntry of a document
SdiEntry(type, id, json) ==
  [type |-> type, id |-> id, json |-> json, uncomp_len |-> json_size(json),
   comp_len |-> compress2_len(json)]

\* inflate of a sequence of pieces <<json, offset, length>> of compressed
\* streams: the text if the pieces are one whole stream, and 0 if not
inflate(pieces) ==
  IF pieces = <<>> THEN 0
  ELSE LET j == pieces[1][1]
           from[k \in 0..Len(pieces)] ==
             IF k = 0 THEN 0
             ELSE IF from[k - 1] >= 0 /\ pieces[k][1] = j
                     /\ pieces[k][2] = from[k - 1]
             THEN from[k - 1] + pieces[k][3] ELSE -1
       IN IF from[Len(pieces)] = compress2_len(j) THEN j ELSE 0

\* get_page of a file of pages
get_page(file, page_no) ==
  IF page_no < Len(file) THEN file[page_no + 1].img ELSE ZeroPage

\* the payloads of the (part_len, next_page) chain that starts at page_no;
\* left caps the walk at the number of pages of the file
RECURSIVE sdi_blob_chain(_, _, _)
sdi_blob_chain(file, page_no, left) ==
  LET page == get_page(file, page_no)
  IN IF page_no = FIL_NULL \/ page_no >= Len(file) \/ left = 0
        \/ page.type # FIL_PAGE_SDI_BLOB \/ page.lob = <<>>
     THEN <<>>
     ELSE <<<<page.lob[1].json, page.lob[1].offset, page.lob[1].part_len>>>>
          \o sdi_blob_chain(file, page.lob[1].next_page, left - 1)

\* the compressed bytes of a record of the SDI root: the bytes in the record
\* of the length its prefix gives, or the chain its reference names when the
\* prefix has the "stored externally" bit
sdi_rec_data(file, r) ==
  LET two == Len(r.prefix) = 2 /\ r.prefix[2] >= 128
      len == IF two THEN (r.prefix[2] % 64) * 256 + r.prefix[1]
             ELSE r.prefix[1]
  IN IF two /\ (r.prefix[2] \div 64) % 2 = 1
     THEN sdi_blob_chain(file, r.first_blob_page, Len(file))
     ELSE <<<<r.json, 0, len>>>>

\* iter_sdi: the (type, id, json) of the records of the SDI root, in the
\* order of the walk
iter_sdi(file, sdi_root_page_no) ==
  LET page == get_page(file, sdi_root_page_no)
      w == walk_records(page, UNIV_PAGE_SIZE_ORIG, walk_start)
      rec(off) == page.recs[CHOOSE k \in DOMAIN page.recs :
                              page.recs[k].offs = off]
      user == SelectSeq(w.seen, LAMBDA off :
                          \E k \in DOMAIN page.recs : page.recs[k].offs = off)
  IN [k \in 1..Len(user) |->
        [type |-> rec(user[k]).type, id |-> rec(user[k]).id,
         json |-> inflate(sdi_rec_data(file, rec(user[k])))]]

----------------------------------------------------------------------------
(* Specification of the modes: each mode run to its end on the same file,  *)
(* one after the other                                                     *)

\* the documents of an SDI JSON file: one that fits in the root page, one
\* that compresses to less than 0x3fff bytes and does not fit, one that
\* needs two blob pages
SdiSmall == [type |-> 1, id |-> 1, json |-> 1, uncomp_len |-> 400,
             comp_len |-> 100]
SdiMid == [type |-> 1, id |-> 2, json |-> 2, uncomp_len |-> 70000,
           comp_len |-> 16300]
SdiBig == [type |-> 2, id |-> 3, json |-> 3, uncomp_len |-> 90000,
           comp_len |-> 20000]

\* an SDI JSON file whose array holds the objects of entries, in this order
JsonOpt(entries) ==
  [NoOpt EXCEPT !.have_json = TRUE,
                !.sdi_doc = [k \in 1..Len(entries) |-> DocObject(entries[k])]]

\* an 8k-compressed tablespace with SDI
ZipFlags == MkFlags(4, 0, 1)

InitModes ==
  /\ in_pages \in
       FilesOf({Page0(7, ZipFlags, <<1, 1>>, free) : free \in {{}, {1}}}
               \cup {Page0(7, MkFlags(0, 0, 1), <<1, 1>>, {})},
               ModeKinds)
  /\ dpIdle
  /\ m2_i = 0 /\ m2_out = <<>> /\ m2_pages_failed = 0
  /\ m2_pc = "start" /\ m2_ret = "none"
  /\ m4_page_number = 0 /\ m4_out = <<>> /\ m4_pc = "start" /\ m4_ret = "none"
  /\ m3_page_no = 0 /\ m3_parsed = <<>> /\ m3_pc = "start"
  /\ opt = JsonOpt(<<SdiMid>>)
  /\ rb_pc = "start" /\ rbEntry
  /\ parser_ctx = TargetCtx(42) /\ table = LeafTable
  /\ walk_page = NoWalkPage /\ walk_st = walk_start /\ rows_out = <<>>
  /\ iter = NoIter /\ lib_pc = "off" /\ lib_ret = <<>> /\ lib_log = NoLog
  /\ srv_page_size = 0
  /\ lobOff

NextModes ==
  \/ M2Start \/ M2Page \/ M2Finish
  \/ M4Start \/ M4Page \/ M4Finish
  \/ M3Start \/ M3Page \/ M3Walk \/ M3Finish
  \/ RbStart
  \/ RbPage
  \/ RbBlob
  \/ RbFinish

SpecModes == InitModes /\ [][NextModes]_vars

----------------------------------------------------------------------------
(* Specification of rebuild: one run on a file and a set of options        *)

Remap1 == 42 :> 4711
Remap2 == (42 :> 43) @@ (43 :> 44)

RbOpts ==
  {NoOpt, [NoOpt EXCEPT !.index_id_remap = Remap1],
   [NoOpt EXCEPT !.index_id_remap = Remap2]}
  \cup {JsonOpt(es) : es \in {<<>>, <<SdiSmall>>, <<SdiMid>>,
                              <<SdiSmall, SdiMid>>, <<SdiBig>>}}
  \cup {[JsonOpt(<<SdiMid>>) EXCEPT !.index_id_remap = Remap1]}
  \cup {[JsonOpt(<<SdiSmall>>) EXCEPT !.target_sdi_root_set = t[1],
                                      !.target_sdi_root_page = t[2],
                                      !.use_target_sdi_root = t[3],
                                      !.use_source_sdi_root = t[4]] :
          t \in {<<TRUE, 2, TRUE, FALSE>>, <<TRUE, 2, FALSE, FALSE>>,
                 <<TRUE, 0, TRUE, FALSE>>, <<FALSE, 0, TRUE, FALSE>>,
                 <<TRUE, 2, TRUE, TRUE>>}}

\* page 0 of the files of rebuild: every page size and SDI slot the header
\* update tells apart, and the headers it rejects
RbPage0s ==
  {Page0(7, f, slot, {}) :
     f \in {ZipFlags, MkFlags(4, 5, 1), MkFlags(3, 0, 1)},
     slot \in {<<1, 1>>, <<1, 2>>, <<0, 1>>, <<0, 0>>, <<1, 0>>}}
  \cup {Page0(7, MkFlags(4, 0, 0), slot, {}) : slot \in {<<0, 0>>, <<1, 1>>}}
  \cup {Page0(7, f, <<1, 1>>, {}) :
          f \in {MkFlags(0, 0, 1), MkFlags(4, 4, 1), MkFlags(3, 4, 1),
                 ZipFlags + 32768}}
  \cup {Page0(sp, ZipFlags, <<1, 1>>, {}) : sp \in {0, SPACE_UNKNOWN}}

\* documents for the SDI root: small ones of distinct keys, and ones of which
\* two fit in the root page and a third does not
SdiN(k) == SdiEntry(1 + (k % 2), k, 10 + k)
Sdi8k(k) == SdiEntry(3, k, 20 + k)

\* the arrays of the SDI JSON files: 7, 8 and 9 small documents in falling
\* key order, elements the loader skips, equal keys with two texts, a
\* document twice, a second one-page and a second two-page blob,
\* documents stored externally, with and without blob pages for all of
\* them, and an array without any document
SdiDocs ==
  {[k \in 1..n |-> DocObject(SdiN(n + 1 - k))] : n \in 7..9}
  \cup {<<DocString, DocObject(SdiMid), DocNoMember(SdiBig),
          DocBadId(SdiSmall), DocObject(SdiSmall)>>,
        <<DocObject(SdiSmall), DocObject(SdiEntry(1, 1, 12))>>,
        <<DocObject(SdiSmall), DocObject(SdiSmall)>>,
        <<DocObject(SdiEntry(1, 4, 4)), DocObject(SdiMid)>>,
        <<DocObject(SdiBig), DocObject(SdiEntry(2, 5, 5))>>,
        <<DocObject(SdiBig), DocObject(SdiSmall)>>,
        <<DocObject(Sdi8k(3)), DocObject(Sdi8k(2)), DocObject(Sdi8k(1))>>,
        <<DocObject(Sdi8k(1)), DocObject(SdiMid), DocObject(Sdi8k(2)),
          DocObject(Sdi8k(3))>>,
        <<DocString, DocNoMember(SdiSmall)>>}

\* the files and options of rebuild: every page 0 with the pages of the SDI
\* and every option, the usual page 0 with every kind of page and the
\* options that tell the kinds apart, and the SDI and SDI blob pages with
\* every SDI JSON file
\* a file with an SDI root and three SDI blob pages, for a rebuild that
\* lays a chain of two pages and a chain of one page
TwoChainFile ==
  [k \in 1..5 |->
     IF k = 1 THEN Page0(7, ZipFlags, <<1, 1>>, {})
     ELSE KindPage(IF k = 2 THEN Kind(FIL_PAGE_SDI, 0, TRUE)
                   ELSE Kind(FIL_PAGE_SDI_BLOB, 0, FALSE), k - 1)]

InitRebuild ==
  /\ \/ /\ in_pages \in
             FilesOf(RbPage0s, {Kind(FIL_PAGE_INODE, 0, FALSE),
                                Kind(FIL_PAGE_SDI, 0, TRUE),
                                Kind(FIL_PAGE_SDI_BLOB, 0, FALSE)})
        /\ opt \in RbOpts
     \/ /\ in_pages \in FilesOf({Page0(7, ZipFlags, <<1, 1>>, {})}, BaseKinds)
        /\ opt \in {NoOpt, [NoOpt EXCEPT !.index_id_remap = Remap1],
                    [NoOpt EXCEPT !.index_id_remap = Remap2],
                    JsonOpt(<<SdiMid>>),
                    [JsonOpt(<<SdiMid>>) EXCEPT !.index_id_remap = Remap1]}
     \/ /\ in_pages \in
             FilesUpTo({Page0(7, ZipFlags, <<1, root>>, {}) :
                          root \in {1, 2}},
                       {Kind(FIL_PAGE_SDI, 0, TRUE),
                        Kind(FIL_PAGE_SDI_BLOB, 0, FALSE)}, MaxSdiPages)
        /\ opt \in {[NoOpt EXCEPT !.have_json = TRUE, !.sdi_doc = doc] :
                      doc \in SdiDocs}
     \/ /\ in_pages = TwoChainFile
        /\ opt = JsonOpt(<<SdiBig, Sdi8k(1), Sdi8k(2), Sdi8k(3)>>)
  /\ dpIdle
  /\ m2_i = 0 /\ m2_out = <<>> /\ m2_pages_failed = 0
  /\ m2_pc = "off" /\ m2_ret = "none"
  /\ m4_page_number = 0 /\ m4_out = <<>> /\ m4_pc = "off" /\ m4_ret = "none"
  /\ m3_page_no = 0 /\ m3_parsed = <<>> /\ m3_pc = "off"
  /\ rb_pc = "start" /\ rbEntry
  /\ exOff
  /\ lobOff

NextRebuild ==
  \/ RbStart
  \/ RbPage
  \/ RbBlob
  \/ RbFinish

SpecRebuild == InitRebuild /\ [][NextRebuild]_vars

\* the space id options main lets through: --use-target-space-id and
\* --use-source-space-id exclude each other, a target space id is neither 0
\* nor SPACE_UNKNOWN
SpaceIdOpts ==
  {[NoOpt EXCEPT !.use_target_space_id = t[1], !.use_source_space_id = t[2],
                 !.target_space_id_override_set = t[3] # 0,
                 !.target_space_id_override = t[3]] :
     t \in {t \in BOOLEAN \X BOOLEAN \X {0, 99} : ~(t[1] /\ t[2])}}

\* rebuilds under the space id options, with and without an SDI JSON
InitSpaceId ==
  /\ \/ /\ in_pages \in
             FilesOf({Page0(7, ZipFlags, <<1, 1>>, {})}, BaseKinds)
        /\ opt \in SpaceIdOpts
     \/ /\ in_pages \in
             FilesUpTo({Page0(7, ZipFlags, <<1, 1>>, {})},
                       {Kind(FIL_PAGE_SDI, 0, TRUE),
                        Kind(FIL_PAGE_SDI_BLOB, 0, FALSE)}, MaxSdiPages)
        /\ opt \in {[o EXCEPT !.have_json = TRUE,
                              !.sdi_doc = <<DocObject(SdiBig),
                                            DocObject(SdiSmall)>>] :
                      o \in SpaceIdOpts}
  /\ dpIdle
  /\ m2_i = 0 /\ m2_out = <<>> /\ m2_pages_failed = 0
  /\ m2_pc = "off" /\ m2_ret = "none"
  /\ m4_page_number = 0 /\ m4_out = <<>> /\ m4_pc = "off" /\ m4_ret = "none"
  /\ m3_page_no = 0 /\ m3_parsed = <<>> /\ m3_pc = "off"
  /\ rb_pc = "start" /\ rbEntry
  /\ exOff
  /\ lobOff

SpecSpaceId == InitSpaceId /\ [][NextRebuild]_vars

----------------------------------------------------------------------------
(* Specification of record extraction: one run of do_parse_main or one     *)
(* table iterator read to its end, on a file of leaf pages                 *)

MaxLeafPages == 2

\* a user record the validation accepts, at byte offs, linked to next_off
LeafRec(offs, next_off) ==
  [offs |-> offs, status |-> REC_STATUS_ORDINARY, n_owned |-> 0,
   next |-> write_compact_next_offs(offs, next_off), deleted |-> FALSE,
   offs_ok |-> TRUE, data_size |-> 8, fields_ok |-> TRUE]

\* a leaf page of index 42 with the records recs, whose infimum is linked to
\* first_off
LeafPage(recs, first_off) ==
  [MkPage(FIL_PAGE_INDEX, 0, 42, TRUE) EXCEPT
     !.recs = recs,
     !.hdr = [EmptyHdr EXCEPT
                !.n_recs = Len(recs),
                !.inf = [EmptyHdr.inf EXCEPT
                           !.next = write_compact_next_offs(PAGE_NEW_INFIMUM,
                                                            first_off)]]]

\* four records in a chain to the supremum: the second has too little data
\* and the fourth is delete-marked
LeafMixed ==
  LeafPage(<<LeafRec(128, 160),
             [LeafRec(160, 192) EXCEPT !.data_size = 2],
             LeafRec(192, 224),
             [LeafRec(224, PAGE_NEW_SUPREMUM) EXCEPT !.deleted = TRUE]>>,
           128)

\* the other ways the validation rejects a record, a node pointer, and a
\* delete-marked record that is invalid as well
LeafRejects ==
  LeafPage(<<[LeafRec(128, 160) EXCEPT !.offs_ok = FALSE],
             [LeafRec(160, 192) EXCEPT !.status = REC_STATUS_NODE_PTR],
             [LeafRec(192, 224) EXCEPT !.data_size = 30],
             [LeafRec(224, 256) EXCEPT !.fields_ok = FALSE],
             LeafRec(256, PAGE_NEW_SUPREMUM)>>, 128)

\* next pointers that form a cycle of two records
LeafCycle == LeafPage(<<LeafRec(128, 160), LeafRec(160, 128)>>, 128)

\* pages a walk cannot finish on the supremum: a cycle under a PAGE_N_RECS
\* that exceeds page_size / 6, a delta of one page size (the record is its
\* own successor on a 4k page), a successor below the infimum, a delta that
\* wraps around the start of the page, a delta of zero
LeafBroken ==
  {[LeafCycle EXCEPT !.hdr.n_recs = 700],
   LeafPage(<<[LeafRec(128, 0) EXCEPT !.next = 4096]>>, 128),
   LeafPage(<<LeafRec(128, 50)>>, 128),
   LeafPage(<<LeafRec(128, 160), [LeafRec(160, 0) EXCEPT !.next = 65336]>>,
            128),
   LeafPage(<<LeafRec(128, 0)>>, 128)}

\* pages the guards turn away: a non-leaf page, a REDUNDANT page, a page of
\* another index, a page of another type, and a zip page that does not
\* decompress
LeafOthers ==
  {[LeafMixed EXCEPT !.hdr.level = 1],
   [LeafMixed EXCEPT !.comp = FALSE],
   [LeafMixed EXCEPT !.index_id = 43],
   [LeafMixed EXCEPT !.type = FIL_PAGE_SDI],
   [LeafMixed EXCEPT !.zok = FALSE]}

\* a file: page 0 and up to max pages, each stamped with its page number
LeafFiles(p0, pages, max) ==
  UNION {{[k \in 1..(n + 1) |->
             IF k = 1 THEN p0 ELSE [ps[k - 1] EXCEPT !.page_no = k - 1]] :
            ps \in [1..n -> pages]} : n \in 1..max}

InitExtract ==
  /\ in_pages \in
       LeafFiles(Page0(7, MkFlags(0, 3, 0), <<0, 0>>, {}),
                 {LeafMixed, LeafRejects, LeafCycle,
                  MkPage(FIL_PAGE_INDEX, 0, 42, TRUE)}
                   \cup LeafBroken \cup LeafOthers, MaxLeafPages)
       \cup LeafFiles(Page0(7, ZipFlags, <<0, 0>>, {}),
                      {LeafMixed, LeafRejects} \cup LeafOthers, MaxLeafPages)
  /\ dpIdle
  /\ m2_i = 0 /\ m2_out = <<>> /\ m2_pages_failed = 0
  /\ m2_pc = "off" /\ m2_ret = "none"
  /\ m4_page_number = 0 /\ m4_out = <<>> /\ m4_pc = "off" /\ m4_ret = "none"
  /\ m3_page_no = 0 /\ m3_parsed = <<>>
  /\ opt = NoOpt /\ rb_pc = "off" /\ rbEntry
  /\ parser_ctx = TargetCtx(42) /\ table = LeafTable
  /\ walk_page = NoWalkPage /\ walk_st = walk_start /\ rows_out = <<>>
  /\ iter = NoIter /\ lib_ret = <<>> /\ lib_log = NoLog
  /\ \/ m3_pc = "start" /\ lib_pc = "off" /\ srv_page_size = 0
     \/ /\ m3_pc = "off" /\ lib_pc = "idle"
        /\ srv_page_size = srv_page_size_after(in_pages, 0)
  /\ lobOff

NextExtract ==
  \/ M3Start \/ M3Page \/ M3Walk \/ M3Finish
  \/ LibRead
  \/ LibLoad
  \/ LibWalk

SpecExtract == InitExtract /\ [][NextExtract]_vars

\* the runs on a file of one leaf page
InitWalk == InitExtract /\ Len(in_pages) = 2

\* a record loop that can take a step takes it
SpecWalk ==
  InitWalk /\ [][NextExtract]_vars /\ WF_vars(M3Walk) /\ WF_vars(LibWalk)

\* the runs on files whose extent descriptor marks some of the pages free
InitFree ==
  /\ in_pages \in
       UNION {LeafFiles(Page0(7, MkFlags(0, 3, 0), <<0, 0>>, free),
                        {LeafMixed, LeafRejects, [LeafMixed EXCEPT
                                                    !.index_id = 43]},
                        MaxLeafPages) : free \in SUBSET (1..MaxLeafPages)}
  /\ dpIdle
  /\ m2_i = 0 /\ m2_out = <<>> /\ m2_pages_failed = 0
  /\ m2_pc = "off" /\ m2_ret = "none"
  /\ m4_page_number = 0 /\ m4_out = <<>> /\ m4_pc = "off" /\ m4_ret = "none"
  /\ m3_page_no = 0 /\ m3_parsed = <<>>
  /\ opt = NoOpt /\ rb_pc = "off" /\ rbEntry
  /\ parser_ctx = TargetCtx(42) /\ table = LeafTable
  /\ walk_page = NoWalkPage /\ walk_st = walk_start /\ rows_out = <<>>
  /\ iter = NoIter /\ lib_ret = <<>> /\ lib_log = NoLog
  /\ \/ m3_pc = "start" /\ lib_pc = "off" /\ srv_page_size = 0
     \/ /\ m3_pc = "off" /\ lib_pc = "idle"
        /\ srv_page_size = srv_page_size_after(in_pages, 0)
  /\ lobOff

SpecFree == InitFree /\ [][NextExtract]_vars

\* a 16k leaf page whose second record lies beyond the first 4k and 8k
LeafHigh ==
  LeafPage(<<LeafRec(128, 9000), LeafRec(9000, PAGE_NEW_SUPREMUM)>>, 128)

\* page 0 of the other tablespaces a caller opens: pages of 4k, of 8k and
\* of 16k
OtherFiles ==
  {<<Page0(8, MkFlags(0, ssize, 0), <<0, 0>>, {})>> : ssize \in {3, 4, 5}}

\* ibd_open_table on another tablespace between two calls on the open table:
\* of what it assigns outside its own iterator (table_definitions[0],
\* table_definitions_cnt, srv_page_size), the record validation of the open
\* table reads srv_page_size
LibOpenOther ==
  /\ lib_pc = "idle"
  /\ \E file \in OtherFiles :
       srv_page_size' = srv_page_size_after(file, srv_page_size)
  /\ UNCHANGED exlocal
  /\ UNCHANGED <<dpvars, in_pages, m2vars, m4vars, m3vars, opt, rbvars,
                 lobvars>>

\* a table of 16k pages open in the library, and a caller that opens other
\* tablespaces while it reads the table
InitShared ==
  /\ in_pages \in LeafFiles(Page0(7, MkFlags(0, 5, 0), <<0, 0>>, {}),
                            {LeafHigh, LeafMixed}, MaxLeafPages)
  /\ dpIdle
  /\ m2_i = 0 /\ m2_out = <<>> /\ m2_pages_failed = 0
  /\ m2_pc = "off" /\ m2_ret = "none"
  /\ m4_page_number = 0 /\ m4_out = <<>> /\ m4_pc = "off" /\ m4_ret = "none"
  /\ m3_page_no = 0 /\ m3_parsed = <<>> /\ m3_pc = "off"
  /\ opt = NoOpt /\ rb_pc = "off" /\ rbEntry
  /\ parser_ctx = TargetCtx(42) /\ table = LeafTable
  /\ walk_page = NoWalkPage /\ walk_st = walk_start /\ rows_out = <<>>
  /\ iter = NoIter /\ lib_ret = <<>> /\ lib_log = NoLog /\ lib_pc = "idle"
  /\ srv_page_size = srv_page_size_after(in_pages, 0)
  /\ lobOff

NextShared ==
  \/ LibRead
  \/ LibLoad
  \/ LibWalk
  \/ LibOpenOther

SpecShared == InitShared /\ [][NextShared]_vars

----------------------------------------------------------------------------
(* The reader of externally stored fields: read_external_lob_value and the *)
(* four chain formats behind read_lob_external.  The value is kept as the  *)
(* number of its bytes (lob_out is out.size()); the tablespace is open     *)
(* (g_lob_ctx.fd >= 0), not compressed, and has pages of                   *)
(* UNIV_PAGE_SIZE_ORIG bytes.  A page of the file is a record of the       *)
(* fields the readers look at:                                             *)
(*   type, next            FIL_PAGE_TYPE, FIL_PAGE_NEXT                    *)
(*   part_len, next_page   the LOB header at FIL_PAGE_DATA                 *)
(*   data_len              LOB_FIRST/LOB_DATA/ZLOB_FIRST/ZLOB_DATA length  *)
(*   first                 the first address of the index list             *)
(*   nodes                 the index entries of the page                   *)
(*   frag                  directory count, node offset and node length    *)
(*   zout, zret            what inflate makes of the deflate bytes of the  *)
(*                         page: bytes produced with room to spare, and    *)
(*                         "OK" (more input wanted, Z_OK or Z_BUF_ERROR),  *)
(*                         "END" (Z_STREAM_END) or "ERR"                   *)

BTR_EXTERN_FIELD_REF_SIZE == 20
LOB_HDR_SIZE == 8
FIL_PAGE_NEXT == 12
FIL_PAGE_TYPE_ZBLOB == 11
FIL_PAGE_TYPE_ZBLOB2 == 12
FIL_PAGE_TYPE_LOB_DATA == 23
FIL_PAGE_TYPE_LOB_FIRST == 24
FIL_PAGE_TYPE_ZLOB_FIRST == 25
FIL_PAGE_TYPE_ZLOB_DATA == 26
FIL_PAGE_TYPE_ZLOB_FRAG == 28
LOB_DATA_DATA == 49
LOB_INDEX_ENTRY_SIZE == 60
LOB_FIRST_DATA_BEGIN == 696
ZLOB_DATA_OFFSET_DATA_BEGIN == 49
ZLOB_INDEX_ENTRY_SIZE == 66
ZLOB_FRAG_ENTRY_SIZE == 22
ZLOB_FIRST_OFFSET_INDEX_BEGIN == 136
ZLOB_FRAG_NODE_HEADER_SIZE == 8
ZLOB_FRAG_ID_NULL == 65535
\* const size_t max_steps of every chain loop
max_steps == 100000
\* g_lob_ctx.physical_page_size
lob_physical == UNIV_PAGE_SIZE_ORIG

MkLobPage(type) ==
  [type |-> type, next |-> FIL_NULL, part_len |-> 0, next_page |-> FIL_NULL,
   data_len |-> 0, first |-> NullAddr, nodes |-> <<>>,
   frag |-> [n_entries |-> 0, offset |-> 0, total_len |-> 0],
   zout |-> 0, zret |-> "ERR"]

\* pread of one page: short at and behind the end of the file
read_tablespace_page(pages, page_no) ==
  IF page_no < Len(pages)
    THEN [ok |-> TRUE, buf |-> pages[page_no + 1]]
    ELSE [ok |-> FALSE, buf |-> MkLobPage(0)]

clamp_page_copy(page_size, start, want) ==
  IF start >= page_size THEN 0 ELSE Min(want, page_size - start)

\* the LOB header read at an offset of a page
lob_hdr_at(page, offset) ==
  IF offset = FIL_PAGE_DATA
    THEN [part_len |-> page.part_len, next_page |-> page.next_page]
    ELSE [part_len |-> 0, next_page |-> 0]

\* the index entry read at a byte offset of a page
node_at(page, boffset) ==
  LET at == {i \in 1..Len(page.nodes) : page.nodes[i].boffset = boffset}
  IN IF at = {} THEN ZeroEntry ELSE page.nodes[CHOOSE i \in at : TRUE]

is_null(addr) == addr.page = FIL_NULL

\* the test steps++ < max_steps of a chain loop: steps_left is the
\* comparison, count_step the increment of an iteration that begins (steps
\* counts the iterations the loop has begun)
steps_left(steps) == steps < max_steps

count_step_skipped(steps) == steps

count_step(steps) == steps + 1

\* target_total of read_external_lob_value
target_total_noLimit(total_len, limit) == total_len

target_total(total_len, limit) ==
  IF limit > 0 /\ total_len > limit THEN limit ELSE total_len

\* read_external_lob_value up to the call of read_lob_external: the early
\* returns, the copy of the local prefix, and want
lob_value_head(field, limit) ==
  IF field.field_len < BTR_EXTERN_FIELD_REF_SIZE \/ field.ref.being_modified
    THEN [returns |-> TRUE, ok |-> FALSE, truncated |-> FALSE, out |-> 0,
          want |-> 0]
    ELSE
      LET local_len == field.field_len - BTR_EXTERN_FIELD_REF_SIZE
          total_len == local_len + field.ref.length
          tt == target_total(total_len, limit)
          copy_len == IF limit > 0 /\ local_len > tt THEN tt ELSE local_len
          truncated == \/ limit > 0 /\ total_len > limit
                       \/ local_len > 0 /\ limit > 0 /\ local_len > tt
          want == IF limit > 0 /\ copy_len + field.ref.length > tt
                    THEN tt - copy_len ELSE field.ref.length
      IN IF field.ref.length = 0 \/ copy_len >= tt
           THEN [returns |-> TRUE, ok |-> TRUE, truncated |-> truncated,
                 out |-> copy_len, want |-> 0]
           ELSE [returns |-> FALSE, ok |-> FALSE, truncated |-> truncated,
                 out |-> copy_len, want |-> want]

\* what format_field_value prints of the value: max_len bytes of lob_data
\* when read_external_lob_value returned true, no value byte otherwise
lob_printed(ok, out, limit) ==
  IF ~ok THEN 0 ELSE IF limit > 0 /\ out > limit THEN limit ELSE out

\* the chain format read_lob_external picks by the type of page ref.page_no;
\* every chain reader returns 0 at once for ref.page_no = FIL_NULL, which
\* the failed read of that page covers
read_lob_external_format(pages, ref) ==
  LET rd == read_tablespace_page(pages, ref.page_no)
  IN IF ~rd.ok THEN "none"
     ELSE IF rd.buf.type \in {FIL_PAGE_TYPE_BLOB, FIL_PAGE_SDI_BLOB}
       THEN "old"
     ELSE IF rd.buf.type = FIL_PAGE_TYPE_LOB_FIRST THEN "lob"
     ELSE IF rd.buf.type = FIL_PAGE_TYPE_ZLOB_FIRST THEN "zlob"
     ELSE IF rd.buf.type \in {FIL_PAGE_TYPE_ZBLOB, FIL_PAGE_TYPE_ZBLOB2,
                              FIL_PAGE_SDI_ZBLOB} THEN "zblob"
     ELSE "none"

\* the locals of the picked chain reader before its loop
lob_loop_start(pages, ref, want, format) ==
  LET first == read_tablespace_page(pages, ref.page_no).buf
  IN IF format = "old"
       THEN [NoLoop EXCEPT !.page_no = ref.page_no, !.want = want,
               !.remaining = want,
               !.offset = IF ref.offset < FIL_PAGE_DATA
                             \/ ref.offset >= lob_physical
                            THEN FIL_PAGE_DATA ELSE ref.offset]
     ELSE IF format = "zblob"
       THEN [NoLoop EXCEPT !.page_no = ref.page_no, !.want = want,
               !.remaining = want, !.offset = ref.offset]
     ELSE [NoLoop EXCEPT !.page_no = first.first.page,
             !.boffset = first.first.boffset, !.want = want,
             !.remaining = want]

\* one evaluation of the loop of read_lob_old_chain: the test and, when it
\* passes, the body
read_lob_old_chain_iter(pages, L) ==
  IF L.page_no = FIL_NULL \/ L.remaining = 0 \/ ~steps_left(L.steps)
    THEN [loop |-> L, ends |-> TRUE]
    ELSE
      LET L1 == [L EXCEPT !.steps = count_step(@)]
          rd == read_tablespace_page(pages, L.page_no)
          hdr == lob_hdr_at(rd.buf, L.offset)
          copy_len == clamp_page_copy(lob_physical, L.offset + LOB_HDR_SIZE,
                                      Min(hdr.part_len, L.remaining))
          L2 == [L1 EXCEPT !.total = @ + copy_len,
                           !.remaining = @ - copy_len]
      IN IF \/ ~rd.ok
            \/ rd.buf.type \notin {FIL_PAGE_TYPE_BLOB, FIL_PAGE_SDI_BLOB}
            \/ L.offset + LOB_HDR_SIZE > lob_physical
            \/ copy_len = 0
           THEN [loop |-> L1, ends |-> TRUE]
         ELSE IF copy_len < hdr.part_len
           THEN [loop |-> L2, ends |-> TRUE]
         ELSE [loop |-> [L2 EXCEPT !.page_no = hdr.next_page,
                                   !.offset = FIL_PAGE_DATA],
               ends |-> FALSE]

read_lob_first_page(page, want) ==
  Min(want, clamp_page_copy(lob_physical, LOB_FIRST_DATA_BEGIN,
                            page.data_len))

read_lob_data_page(page, want) ==
  Min(want, clamp_page_copy(lob_physical, LOB_DATA_DATA, page.data_len))

\* copied of one iteration of read_lob_new_format
lob_new_copied(pages, ref, data_page_no, remaining) ==
  LET rd == read_tablespace_page(pages, data_page_no)
  IN IF data_page_no = ref.page_no
       THEN read_lob_first_page(
              read_tablespace_page(pages, ref.page_no).buf, remaining)
     ELSE IF rd.ok /\ rd.buf.type = FIL_PAGE_TYPE_LOB_DATA
       THEN read_lob_data_page(rd.buf, remaining)
     ELSE 0

\* one evaluation of the loop of read_lob_new_format
read_lob_new_format_iter(pages, ref, L) ==
  IF L.page_no = FIL_NULL \/ L.remaining = 0 \/ ~steps_left(L.steps)
    THEN [loop |-> L, ends |-> TRUE]
    ELSE
      LET L1 == [L EXCEPT !.steps = count_step(@)]
          rd == read_tablespace_page(pages, L.page_no)
          node == node_at(rd.buf, L.boffset)
          Lnext == [L1 EXCEPT !.page_no = node.next.page,
                              !.boffset = node.next.boffset]
          copied == lob_new_copied(pages, ref, node.page_no, L.remaining)
      IN IF ~rd.ok \/ L.boffset + LOB_INDEX_ENTRY_SIZE > lob_physical
           THEN [loop |-> L1, ends |-> TRUE]
         ELSE IF node.lob_version > ref.version \/ node.page_no = FIL_NULL
           THEN [loop |-> Lnext, ends |-> FALSE]
         ELSE IF copied = 0
           THEN [loop |-> L1, ends |-> TRUE]
         ELSE [loop |-> [Lnext EXCEPT !.total = @ + copied,
                                      !.remaining = @ - copied],
               ends |-> FALSE]

\* one evaluation of the loop of read_zblob_external; remaining is
\* strm.avail_out
read_zblob_external_iter(pages, L) ==
  IF L.page_no = FIL_NULL \/ L.remaining = 0 \/ ~steps_left(L.steps)
    THEN [loop |-> L, ends |-> TRUE]
    ELSE
      LET L1 == [L EXCEPT !.steps = count_step(@)]
          rd == read_tablespace_page(pages, L.page_no)
          data_offset == IF L.offset = FIL_PAGE_NEXT THEN FIL_PAGE_DATA
                         ELSE L.offset + 4
          produced == Min(rd.buf.zout, L.remaining)
          L2 == [L1 EXCEPT !.page_no = rd.buf.next]
          L3 == [L2 EXCEPT !.remaining = @ - produced,
                           !.total = @ + produced]
      IN IF \/ ~rd.ok
            \/ rd.buf.type \notin {FIL_PAGE_TYPE_ZBLOB, FIL_PAGE_TYPE_ZBLOB2,
                                   FIL_PAGE_SDI_ZBLOB}
           THEN [loop |-> L1, ends |-> TRUE]
         ELSE IF data_offset >= lob_physical
           THEN [loop |-> L2, ends |-> TRUE]
         ELSE IF rd.buf.zret # "OK" /\ produced = rd.buf.zout
           THEN [loop |-> L3, ends |-> TRUE]
         ELSE [loop |-> [L3 EXCEPT !.offset = FIL_PAGE_NEXT],
               ends |-> FALSE]

zlob_first_index_entries(physical_size) ==
  CASE physical_size = 16384 -> 100
    [] physical_size = 8192 -> 80
    [] physical_size = 4096 -> 40
    [] physical_size = 2048 -> 20
    [] physical_size = 1024 -> 5
    [] OTHER -> 0

zlob_first_frag_entries(physical_size) ==
  CASE physical_size = 16384 -> 200
    [] physical_size = 8192 -> 100
    [] physical_size = 4096 -> 40
    [] physical_size = 2048 -> 20
    [] physical_size = 1024 -> 5
    [] OTHER -> 0

zlob_first_data_begin(physical_size) ==
  ZLOB_FIRST_OFFSET_INDEX_BEGIN
    + zlob_first_index_entries(physical_size) * ZLOB_INDEX_ENTRY_SIZE
    + zlob_first_frag_entries(physical_size) * ZLOB_FRAG_ENTRY_SIZE

\* data_len of read_zlob_frag_payload, 0 when it returns false
read_zlob_frag_payload(page, physical_size, frag_id) ==
  IF \/ frag_id = ZLOB_FRAG_ID_NULL
     \/ frag_id >= page.frag.n_entries
     \/ page.frag.offset + ZLOB_FRAG_NODE_HEADER_SIZE > physical_size
     \/ page.frag.total_len < ZLOB_FRAG_NODE_HEADER_SIZE
    THEN 0
    ELSE clamp_page_copy(physical_size,
                         page.frag.offset + ZLOB_FRAG_NODE_HEADER_SIZE,
                         page.frag.total_len - ZLOB_FRAG_NODE_HEADER_SIZE)

\* data_len of one page of read_zlob_stream, 0 when the stream fails there
zlob_stream_data_len(page, frag_id) ==
  IF page.type = FIL_PAGE_TYPE_ZLOB_FIRST
    THEN clamp_page_copy(lob_physical, zlob_first_data_begin(lob_physical),
                         page.data_len)
  ELSE IF page.type = FIL_PAGE_TYPE_ZLOB_DATA
    THEN clamp_page_copy(lob_physical, ZLOB_DATA_OFFSET_DATA_BEGIN,
                         page.data_len)
  ELSE IF page.type = FIL_PAGE_TYPE_ZLOB_FRAG
    THEN read_zlob_frag_payload(page, lob_physical, frag_id)
  ELSE 0

\* read_zlob_chunk up to the loop of read_zlob_stream, entered with the
\* visible entry: copied = 0 ends read_zlob_new_format
zlob_chunk_begin(L) ==
  IF \/ L.entry.z_page_no = FIL_NULL \/ L.entry.data_len = 0
     \/ L.entry.zdata_len = 0
    THEN [loop |-> L, to |-> "return"]
    ELSE [loop |-> [L EXCEPT !.in_page = L.entry.z_page_no,
                             !.in_boffset = 0,
                             !.in_remaining = L.entry.zdata_len,
                             !.in_steps = 0],
          to |-> "zstream"]

\* read_zlob_chunk behind read_zlob_stream, and the rest of the iteration
\* of read_zlob_new_format: inflate ends the stream only when the whole
\* value of the entry fits data_len
zlob_chunk_end(pages, L, stream_ok) ==
  LET zp == read_tablespace_page(pages, L.entry.z_page_no).buf
      full_len == L.entry.data_len
      target == Min(L.remaining, full_len)
      inflated == stream_ok /\ zp.zret = "END" /\ zp.zout <= full_len
      copied == IF ~inflated THEN 0
                ELSE IF target = full_len THEN zp.zout
                ELSE Min(target, zp.zout)
  IN IF copied = 0 THEN [loop |-> L, to |-> "return"]
     ELSE [loop |-> [L EXCEPT !.total = @ + copied,
                              !.remaining = @ - copied,
                              !.page_no = L.current.next.page,
                              !.boffset = L.current.next.boffset],
           to |-> "zlob"]

\* one evaluation of the loop of read_zlob_new_format up to the call of
\* read_zlob_visible_entry, and that call up to its loop
read_zlob_new_format_iter(pages, ref, L) ==
  IF L.page_no = FIL_NULL \/ L.remaining = 0 \/ ~steps_left(L.steps)
    THEN [loop |-> L, to |-> "return"]
    ELSE
      LET L1 == [L EXCEPT !.steps = count_step(@)]
          rd == read_tablespace_page(pages, L.page_no)
          current == node_at(rd.buf, L.boffset)
      IN IF ~rd.ok \/ L.boffset + ZLOB_INDEX_ENTRY_SIZE > lob_physical
           THEN [loop |-> L1, to |-> "return"]
         ELSE IF current.lob_version <= ref.version
           THEN zlob_chunk_begin([L1 EXCEPT !.current = current,
                                            !.entry = current])
         ELSE [loop |-> [L1 EXCEPT !.current = current,
                           !.in_page = current.versions_first.page,
                           !.in_boffset = current.versions_first.boffset,
                           !.in_steps = 0],
               to |-> "zver"]

\* one evaluation of the loop of read_zlob_visible_entry; behind the loop
\* the entry is current
read_zlob_visible_entry_iter(pages, ref, L) ==
  IF L.in_page = FIL_NULL \/ ~steps_left(L.in_steps)
    THEN zlob_chunk_begin([L EXCEPT !.entry = L.current])
    ELSE
      LET L1 == [L EXCEPT !.in_steps = count_step(@)]
          rd == read_tablespace_page(pages, L.in_page)
          entry == node_at(rd.buf, L.in_boffset)
      IN IF ~rd.ok \/ L.in_boffset + ZLOB_INDEX_ENTRY_SIZE > lob_physical
           THEN zlob_chunk_begin([L1 EXCEPT !.entry = L.current])
         ELSE IF entry.lob_version <= ref.version
           THEN zlob_chunk_begin([L1 EXCEPT !.entry = entry])
         ELSE [loop |-> [L1 EXCEPT !.in_page = entry.next.page,
                                   !.in_boffset = entry.next.boffset],
               to |-> "zver"]

\* one evaluation of the loop of read_zlob_stream
read_zlob_stream_iter(pages, L) ==
  IF L.in_remaining = 0 \/ L.in_page = FIL_NULL \/ ~steps_left(L.in_steps)
    THEN zlob_chunk_end(pages, L, L.in_remaining = 0)
    ELSE
      LET L1 == [L EXCEPT !.in_steps = count_step(@)]
          rd == read_tablespace_page(pages, L.in_page)
          data_len == zlob_stream_data_len(rd.buf, L.entry.z_frag_id)
      IN IF ~rd.ok \/ data_len = 0
           THEN zlob_chunk_end(pages, L1, FALSE)
         ELSE [loop |-> [L1 EXCEPT
                           !.in_remaining = @ - Min(@, data_len),
                           !.in_page = rd.buf.next],
               to |-> "zstream"]

\* the largest BTR_EXTERN_LEN of the short values
MaxLobLen == 30
\* BTR_EXTERN_LEN of the values that are longer than max_steps
LongLobLen == 150000
\* lob_max_bytes of RowOutputOptions when no --lob-max-bytes is given
lob_max_bytes_default == 4194304

IndexEntry(boffset, next, lob_version, page_no, data_len) ==
  [ZeroEntry EXCEPT !.boffset = boffset, !.next = next,
                    !.versions_first = NullAddr,
                    !.lob_version = lob_version, !.page_no = page_no,
                    !.z_page_no = page_no, !.data_len = data_len]

Addr(page, boffset) == [page |-> page, boffset |-> boffset]

\* the tablespace of the run: chains of the four formats, sound ones and
\* ones whose links form a cycle
LobFile ==
  << \* 0: no LOB page
     MkLobPage(FIL_PAGE_TYPE_FSP_HDR),
     \* 1, 2: an old chain of 10 + 30 bytes
     [MkLobPage(FIL_PAGE_TYPE_BLOB) EXCEPT !.part_len = 10, !.next_page = 2],
     [MkLobPage(FIL_PAGE_TYPE_BLOB) EXCEPT !.part_len = 30],
     \* 3: an old chain that links to itself, one byte a page
     [MkLobPage(FIL_PAGE_SDI_BLOB) EXCEPT !.part_len = 1, !.next_page = 3],
     \* 4, 5: a LOB_FIRST page with 6 bytes of its own, an entry of a later
     \* version, and an entry for the 12 bytes of page 5
     [MkLobPage(FIL_PAGE_TYPE_LOB_FIRST) EXCEPT
        !.data_len = 6, !.first = Addr(4, 96),
        !.nodes = <<IndexEntry(96, Addr(4, 156), 0, 4, 6),
                    IndexEntry(156, Addr(4, 216), 20, 5, 12),
                    IndexEntry(216, NullAddr, 0, 5, 12)>>],
     [MkLobPage(FIL_PAGE_TYPE_LOB_DATA) EXCEPT !.data_len = 12],
     \* 6: a LOB_FIRST page whose only entry has no data page and is its
     \* own successor
     [MkLobPage(FIL_PAGE_TYPE_LOB_FIRST) EXCEPT
        !.first = Addr(6, 96),
        !.nodes = <<IndexEntry(96, Addr(6, 96), 0, FIL_NULL, 0)>>],
     \* 7, 8: a deflate stream of 8 + 9 bytes
     [MkLobPage(FIL_PAGE_TYPE_ZBLOB) EXCEPT
        !.next = 8, !.zout = 8, !.zret = "OK"],
     [MkLobPage(FIL_PAGE_TYPE_ZBLOB2) EXCEPT !.zout = 9, !.zret = "END"],
     \* 9: a ZBLOB page that inflates to nothing and links to itself
     [MkLobPage(FIL_PAGE_SDI_ZBLOB) EXCEPT
        !.next = 9, !.zout = 0, !.zret = "OK"],
     \* 10, 11, 12: a ZLOB_FIRST page; its first entry is a stream of 5
     \* bytes on the page for 7 bytes of value; its second entry is of
     \* version 20 (a stream cut short, which does not inflate) and has an
     \* older version whose 6 stream bytes lie on pages 11 and 12 and make
     \* 20 bytes of value
     [MkLobPage(FIL_PAGE_TYPE_ZLOB_FIRST) EXCEPT
        !.data_len = 5, !.zout = 7, !.zret = "END", !.first = Addr(10, 136),
        !.nodes =
          <<[IndexEntry(136, Addr(10, 202), 0, 10, 7) EXCEPT !.zdata_len = 5],
            [IndexEntry(202, NullAddr, 20, 11, 4) EXCEPT
               !.zdata_len = 3, !.versions_first = Addr(10, 268)],
            [IndexEntry(268, NullAddr, 0, 11, 20) EXCEPT !.zdata_len = 6]>>],
     [MkLobPage(FIL_PAGE_TYPE_ZLOB_DATA) EXCEPT
        !.data_len = 4, !.next = 12, !.zout = 20, !.zret = "END"],
     [MkLobPage(FIL_PAGE_TYPE_ZLOB_FRAG) EXCEPT
        !.frag = [n_entries |-> 1, offset |-> 100, total_len |-> 10]],
     \* 13, 14: a ZLOB_FIRST page whose only entry, one byte of value on
     \* page 14, is its own successor
     [MkLobPage(FIL_PAGE_TYPE_ZLOB_FIRST) EXCEPT
        !.first = Addr(13, 136),
        !.nodes =
          <<[IndexEntry(136, Addr(13, 136), 0, 14, 1) EXCEPT
               !.zdata_len = 1]>>],
     [MkLobPage(FIL_PAGE_TYPE_ZLOB_DATA) EXCEPT
        !.data_len = 1, !.zout = 1, !.zret = "END"],
     \* 15: a ZLOB_FIRST page whose entry is of a later version and whose
     \* list of versions is a cycle of later versions
     [MkLobPage(FIL_PAGE_TYPE_ZLOB_FIRST) EXCEPT
        !.first = Addr(15, 136),
        !.nodes =
          <<[IndexEntry(136, NullAddr, LongLobLen, 14, 1) EXCEPT
               !.zdata_len = 1, !.versions_first = Addr(15, 202)],
            IndexEntry(202, Addr(15, 202), LongLobLen, 14, 1)>>],
     \* 16, 17: a ZLOB_FIRST page whose entry names a stream longer than
     \* max_steps on a page that links to itself, one byte a page
     [MkLobPage(FIL_PAGE_TYPE_ZLOB_FIRST) EXCEPT
        !.first = Addr(16, 136),
        !.nodes =
          <<[IndexEntry(136, NullAddr, 0, 17, 3) EXCEPT
               !.zdata_len = LongLobLen]>>],
     [MkLobPage(FIL_PAGE_TYPE_ZLOB_DATA) EXCEPT
        !.data_len = 1, !.next = 17, !.zout = 3, !.zret = "END"] >>

\* the end of read_external_lob_value behind read_lob_external, and what
\* format_field_value prints
LobReturn(read_bytes, out) ==
  /\ lob_pc' = "done"
  /\ lob_out' = out
  /\ lob_ret' = [ok |-> read_bytes = lob_loop'.want,
                 truncated |-> lob_ret.truncated,
                 printed |-> lob_printed(read_bytes = lob_loop'.want, out,
                                         lob_max_bytes)]

\* a chain reader goes on, or returns its total
LobGoOn(r) ==
  /\ lob_loop' = r.loop
  /\ IF r.to = "return"
       THEN LobReturn(r.loop.total, lob_out + (r.loop.total - lob_loop.total))
       ELSE /\ lob_pc' = r.to
            /\ lob_out' = lob_out + (r.loop.total - lob_loop.total)
            /\ UNCHANGED lob_ret

\* read_external_lob_value from its entry to the loop of the chain reader
\* that read_lob_external picks
LobCall ==
  /\ lob_pc = "call"
  /\ LET h == lob_value_head(lob_field, lob_max_bytes)
         format == read_lob_external_format(LobFile, lob_field.ref)
     IN IF h.returns
          THEN /\ lob_pc' = "done"
               /\ lob_out' = h.out
               /\ lob_ret' = [ok |-> h.ok, truncated |-> h.truncated,
                              printed |-> lob_printed(h.ok, h.out,
                                                      lob_max_bytes)]
               /\ UNCHANGED lob_loop
        ELSE IF format = "none"
          THEN /\ lob_pc' = "done"
               /\ lob_out' = h.out
               /\ lob_ret' = [ok |-> FALSE, truncated |-> h.truncated,
                              printed |-> 0]
               /\ lob_loop' = [NoLoop EXCEPT !.want = h.want]
        ELSE /\ lob_pc' = format
             /\ lob_out' = IF format = "zblob" THEN h.out + h.want
                           ELSE h.out
             /\ lob_ret' = [NoLobRet EXCEPT !.truncated = h.truncated]
             /\ lob_loop' = lob_loop_start(LobFile, lob_field.ref, h.want,
                                           format)
  /\ UNCHANGED <<lob_field, lob_max_bytes>>
  /\ UNCHANGED <<dpvars, in_pages, m2vars, m4vars, m3vars, opt, rbvars,
                 exvars>>

LobOldChain ==
  /\ lob_pc = "old"
  /\ LET r == read_lob_old_chain_iter(LobFile, lob_loop)
     IN LobGoOn([loop |-> r.loop,
                 to |-> IF r.ends THEN "return" ELSE "old"])
  /\ UNCHANGED <<lob_field, lob_max_bytes>>
  /\ UNCHANGED <<dpvars, in_pages, m2vars, m4vars, m3vars, opt, rbvars,
                 exvars>>

LobNewFormat ==
  /\ lob_pc = "lob"
  /\ LET r == read_lob_new_format_iter(LobFile, lob_field.ref, lob_loop)
     IN LobGoOn([loop |-> r.loop,
                 to |-> IF r.ends THEN "return" ELSE "lob"])
  /\ UNCHANGED <<lob_field, lob_max_bytes>>
  /\ UNCHANGED <<dpvars, in_pages, m2vars, m4vars, m3vars, opt, rbvars,
                 exvars>>

\* out was resized to out_pos + want before the loop and is cut to
\* out_pos + produced behind it
LobZblob ==
  /\ lob_pc = "zblob"
  /\ LET r == read_zblob_external_iter(LobFile, lob_loop)
     IN /\ lob_loop' = r.loop
        /\ IF r.ends
             THEN LobReturn(r.loop.want - r.loop.remaining,
                            lob_out - r.loop.remaining)
             ELSE UNCHANGED <<lob_pc, lob_out, lob_ret>>
  /\ UNCHANGED <<lob_field, lob_max_bytes>>
  /\ UNCHANGED <<dpvars, in_pages, m2vars, m4vars, m3vars, opt, rbvars,
                 exvars>>

LobZlob ==
  /\ lob_pc = "zlob"
  /\ LobGoOn(read_zlob_new_format_iter(LobFile, lob_field.ref, lob_loop))
  /\ UNCHANGED <<lob_field, lob_max_bytes>>
  /\ UNCHANGED <<dpvars, in_pages, m2vars, m4vars, m3vars, opt, rbvars,
                 exvars>>

LobZlobVersions ==
  /\ lob_pc = "zver"
  /\ LobGoOn(read_zlob_visible_entry_iter(LobFile, lob_field.ref,
                                          lob_loop))
  /\ UNCHANGED <<lob_field, lob_max_bytes>>
  /\ UNCHANGED <<dpvars, in_pages, m2vars, m4vars, m3vars, opt, rbvars,
                 exvars>>

LobZlobStream ==
  /\ lob_pc = "zstream"
  /\ LobGoOn(read_zlob_stream_iter(LobFile, lob_loop))
  /\ UNCHANGED <<lob_field, lob_max_bytes>>
  /\ UNCHANGED <<dpvars, in_pages, m2vars, m4vars, m3vars, opt, rbvars,
                 exvars>>

----------------------------------------------------------------------------
(* Specification of the reader of externally stored fields: one call of    *)
(* read_external_lob_value on one tablespace that holds chains of the four *)
(* formats, sound ones and ones whose links form a cycle                   *)

\* the first pages of the sound chains, a page that is no LOB page, a page
\* behind the end of the file, and no page
ShortHeads == {0, 1, 4, 7, 10, 18, FIL_NULL}
\* the first pages of the chains with a cycle
CycleHeads == {3, 6, 9, 13, 15, 16}

InitLob ==
  /\ \/ /\ lob_field \in
             [field_len : {10, BTR_EXTERN_FIELD_REF_SIZE,
                           BTR_EXTERN_FIELD_REF_SIZE + 3},
              ref : {LobRef(p, o, l, m) :
                       p \in ShortHeads, o \in {0, FIL_PAGE_NEXT,
                                                FIL_PAGE_DATA, 16380},
                       l \in {0, 5, MaxLobLen}, m \in BOOLEAN}]
        /\ lob_max_bytes \in {0, 4, 20, lob_max_bytes_default}
     \/ /\ lob_field \in
             [field_len : {BTR_EXTERN_FIELD_REF_SIZE},
              ref : {LobRef(p, FIL_PAGE_DATA, LongLobLen, FALSE) :
                       p \in CycleHeads}]
        /\ lob_max_bytes = 0
  /\ lob_pc = "call" /\ lob_loop = NoLoop /\ lob_out = 0
  /\ lob_ret = NoLobRet
  /\ in_pages = <<>>
  \* no page is decompressed and no record loop runs: their buffers are
  \* empty
  /\ dp_src = <<>> /\ dp_physical = 0 /\ dp_logical = 0 /\ dp_ret = <<>>
  /\ dp_pc = "idle"
  /\ m2_i = 0 /\ m2_out = <<>> /\ m2_pages_failed = 0
  /\ m2_pc = "off" /\ m2_ret = "none"
  /\ m4_page_number = 0 /\ m4_out = <<>> /\ m4_pc = "off" /\ m4_ret = "none"
  /\ m3_page_no = 0 /\ m3_parsed = <<>> /\ m3_pc = "off"
  /\ opt = NoOpt /\ rb_pc = "off" /\ rbEntry
  /\ parser_ctx = TargetCtx(0) /\ table = <<>>
  /\ walk_page = <<>> /\ walk_st = walk_start /\ rows_out = <<>>
  /\ iter = NoIter /\ lib_pc = "off" /\ lib_ret = <<>> /\ lib_log = NoLog
  /\ srv_page_size = 0

NextLob ==
  \/ LobCall
  \/ LobOldChain
  \/ LobNewFormat
  \/ LobZblob
  \/ LobZlob
  \/ LobZlobVersions
  \/ LobZlobStream

SpecLob == InitLob /\ [][NextLob]_vars

----------------------------------------------------------------------------
(* Claims on the page decompressor *)

ShouldDecompressCase ==
  /\ dp_physical < dp_logical
  /\ dp_src.type \in {FIL_PAGE_INDEX, FIL_PAGE_RTREE, FIL_PAGE_SDI}

C10_ZipFailure ==
  (dp_pc = "ret" /\ ShouldDecompressCase /\ ~dp_src.zok) =>
    /\ dp_src.type = FIL_PAGE_RTREE =>
          /\ dp_ret.ok
          /\ dp_ret.actual_size = dp_physical
          /\ dp_ret.out = dp_src
    /\ dp_src.type = FIL_PAGE_INDEX => ~dp_ret.ok

C10_Witness ==
  /\ dp_pc = "ret"
  /\ ShouldDecompressCase
  /\ ~dp_src.zok
  /\ dp_src.type = FIL_PAGE_RTREE
  /\ dp_ret.ok
  /\ dp_ret.actual_size = dp_physical

----------------------------------------------------------------------------
(* Claims on the streaming modes *)

\* C3 (as claimed): in the page loops of the decompress, decrypt-then-
\* decompress and extract modes a failure on one page never aborts the run:
\* every loop ends only after it has read all pages of the file.
C3_NoAbort ==
  /\ m2_pc = "done" => m2_i = NumPages
  /\ m4_pc = "done" => m4_page_number = NumPages
  /\ m3_pc = "done" => m3_page_no = NumPages

\* the bytes of an output file: the chunks in file order
Bytes(out) == [k \in DOMAIN out |-> <<out[k].size, out[k].img>>]

\* C4 (as claimed): for every input tablespace the bytes mode 4 writes for
\* the encrypted file are the bytes mode 2 writes for the same pages in the
\* clear.
C4_Mode4EqualsMode2 ==
  (m2_pc = "done" /\ m4_pc = "done") => Bytes(m4_out) = Bytes(m2_out)

\* the byte offset of chunk k of an output file
RECURSIVE ChunkOffset(_, _)
ChunkOffset(out, k) ==
  IF k = 1 THEN 0 ELSE ChunkOffset(out, k - 1) + out[k - 1].size

InOrder(out) ==
  \A a, b \in DOMAIN out :
    out[a].no < out[b].no =>
      ChunkOffset(out, a) + out[a].size <= ChunkOffset(out, b)

\* C6: in the output of decompress, of decrypt-then-decompress and of
\* rebuild, for any two written pages with page numbers i < j the bytes of i
\* end before the bytes of j begin.
C6_OutputOrder == InOrder(m2_out) /\ InOrder(m4_out) /\ InOrder(out_file)

C6_Witness ==
  /\ m2_pc = "done" /\ m4_pc = "done" /\ rb_pc = "done"
  /\ Len(m2_out) = MaxPages /\ Len(m4_out) = MaxPages
  /\ Len(out_file) = MaxPages
  /\ \E k \in DOMAIN m2_out : m2_out[k].size # m2_out[1].size

----------------------------------------------------------------------------
(* Claims on rebuild *)

Stamped(p, c) == p.chk = c /\ p.tchk = c

\* C1 (as claimed): after a successful rebuild both checksum fields of every
\* output page equal crc32(bytes[4..38]) XOR crc32(bytes[38..size-8]) of the
\* page's final bytes.
C1_ChecksumTo38 ==
  rb_ret = "true" =>
    \A k \in DOMAIN out_file :
      LET p == out_file[k].img
      IN Stamped(p, Xor(ut_crc32(HeaderWords(p) \o FlushSpaceWords(p)),
                        ut_crc32(BodyWords(p))))

\* C1 (amended): after a successful rebuild the output has a page for every
\* input page, and both checksum fields of every output page, written by the
\* page loop or an SDI blob page written afterwards, equal
\* crc32(bytes[4..26]) XOR crc32(bytes[38..size-8]) of the page's final
\* bytes.
C1_ChecksumStamped ==
  rb_ret = "true" =>
    /\ Len(out_file) = NumPages
    /\ \A k \in DOMAIN out_file :
         Stamped(out_file[k].img, calc_page_crc32(out_file[k].img))

C1_Witness ==
  /\ rb_ret = "true"
  /\ blob_written # {}
  /\ \E k \in DOMAIN out_file : out_file[k].img.type = FIL_PAGE_SDI
  /\ out_file[1].img.flush # 0

\* whether decompress_page_inplace fails on page k of the input
DecompressFails(k) ==
  LET pg_sz == determine_page_size(in_pages).pg_sz
  IN ~decompress_page_inplace(in_pages[k + 1], pg_sz.physical,
                              pg_sz.logical).ok

LoopErrs == {"read", "decompress", "no_sdi_flag", "header", "sdi_root",
             "space_id", "sdi_populate", "write"}

\* C2: in rebuild a failure to read, decompress, transform or write a page
\* makes the run return failure with the pages before it written and neither
\* it nor a later page written; a page that cannot be decompressed is never
\* written and the run never succeeds.
C2_PageFailureIsFatal ==
  /\ rb_err # "none" => (rb_ret = "false" /\ rb_pc = "done")
  /\ rb_err \in LoopErrs => Len(out_file) = rb_page_no
  /\ rb_ret = "true" => Len(out_file) = NumPages
  /\ \A k \in 0..(NumPages - 1) :
       DecompressFails(k) => (rb_ret # "true" /\ Len(out_file) <= k)

C2_Witness ==
  /\ rb_ret = "false"
  /\ rb_err = "decompress"
  /\ rb_page_no = 1
  /\ NumPages = MaxPages
  /\ Len(out_file) = 1

\* C5: every synthesized SDI blob page has a page number of the pool that is
\* less than the number of input pages; blob pages are written only when the
\* page loop has written all pages, each at its page number, and the file
\* keeps its length.
C5_BlobOverwrites ==
  /\ \A pn \in DOMAIN sdi_blob_output :
       /\ \E i \in DOMAIN sdi_blob_pages : sdi_blob_pages[i] = pn
       /\ pn < NumPages
  /\ blob_written # {} => (rb_page_no = NumPages /\ Len(out_file) = NumPages)
  /\ \A pn \in blob_written :
       /\ pn \in DOMAIN sdi_blob_output
       /\ out_file[pn + 1].no = pn
       /\ out_file[pn + 1].img = sdi_blob_output[pn]

C5_Witness ==
  /\ rb_ret = "true"
  /\ \E pn \in blob_written :
       /\ in_pages[pn + 1].type = FIL_PAGE_SDI_BLOB
       /\ out_file[pn + 1].img.lob # <<>>

\* page 0 of the input and of the output, and the SDI slot offsets of the
\* old and of the new flags
OldHdr == in_pages[1].fsp
NewHdr == out_file[1].img.fsp
OldSdiOffset == fsp_header_get_sdi_offset(page_size_t(OldHdr.flags))
NewSdiOffset == fsp_header_get_sdi_offset(page_size_t(NewHdr.flags))
FlagsCleared ==
  /\ FSP_FLAGS_GET_ZIP_SSIZE(NewHdr.flags) = 0
  /\ FSP_FLAGS_GET_PAGE_SSIZE(NewHdr.flags) = 0
NewSlotExpected ==
  IF opt.have_json THEN <<SDI_VERSION, sdi_root_page>>
  ELSE ReadSlot(OldHdr, OldSdiOffset)

\* C7 (as claimed): after rebuild the flags of page 0 have the zip and page
\* size shifts cleared, and whenever the SDI offset of the new flags differs
\* from that of the old flags the two SDI u32s are at the new offset and the
\* old slot is zero.
C7_AlwaysRelocated ==
  rb_ret = "true" =>
    /\ FlagsCleared
    /\ NewSdiOffset # OldSdiOffset =>
         /\ ReadSlot(NewHdr, NewSdiOffset) = NewSlotExpected
         /\ ReadSlot(NewHdr, OldSdiOffset) = <<0, 0>>

\* C7 (amended): after rebuild the flags of page 0 have the zip and page
\* size shifts cleared; when the old flags have the SDI bit, the stored SDI
\* version is not zero and the offsets differ, the new slot holds the old
\* pair (or SDI_VERSION and the chosen root page when SDI JSON was given)
\* and the old slot is zero; in every other case the old slot keeps its
\* content.
C7_HeaderRelocated ==
  rb_ret = "true" =>
    /\ FlagsCleared
    /\ NewHdr.flags = OldHdr.flags
                      - FSP_FLAGS_GET_ZIP_SSIZE(OldHdr.flags) * 2
                      - FSP_FLAGS_GET_PAGE_SSIZE(OldHdr.flags) * 64
    /\ IF /\ FSP_FLAGS_HAS_SDI(OldHdr.flags)
          /\ ReadSlot(OldHdr, OldSdiOffset)[1] # 0
          /\ NewSdiOffset # OldSdiOffset
       THEN /\ ReadSlot(NewHdr, NewSdiOffset) = NewSlotExpected
            /\ ReadSlot(NewHdr, OldSdiOffset) = <<0, 0>>
       ELSE ReadSlot(NewHdr, OldSdiOffset) = ReadSlot(OldHdr, OldSdiOffset)

C7_Witness ==
  /\ rb_ret = "true"
  /\ ~opt.have_json
  /\ FSP_FLAGS_GET_PAGE_SSIZE(OldHdr.flags) = 5
  /\ ReadSlot(OldHdr, OldSdiOffset) = <<1, 2>>
  /\ ReadSlot(NewHdr, NewSdiOffset) = <<1, 2>>
  /\ ReadSlot(NewHdr, OldSdiOffset) = <<0, 0>>

\* C8: with an index-id map in effect every output page of type INDEX or
\* RTREE carries map[s] when its source id s is a key of the map and s
\* otherwise; with the single entry 42 -> 4711 every output INDEX page whose
\* source had id 42 has id 4711 and no output INDEX page has id 42.
C8_RemapOnce ==
  \A k \in DOMAIN out_file :
    LET o == out_file[k].img
        s == in_pages[k].index_id
        map == opt.index_id_remap
    IN (DOMAIN map # {} /\ o.type \in {FIL_PAGE_INDEX, FIL_PAGE_RTREE}) =>
         /\ o.index_id = IF s \in DOMAIN map THEN map[s] ELSE s
         /\ (DOMAIN map = {42} /\ map[42] = 4711 /\ o.type = FIL_PAGE_INDEX)
              => (o.index_id # 42 /\ (s = 42 => o.index_id = 4711))

C8_Witness ==
  /\ rb_ret = "true"
  /\ DOMAIN opt.index_id_remap = {42, 43}
  /\ \E k \in DOMAIN out_file :
       /\ in_pages[k].type = FIL_PAGE_RTREE
       /\ in_pages[k].index_id = 42
       /\ out_file[k].img.type = FIL_PAGE_RTREE
       /\ out_file[k].img.index_id = 43
  /\ \E k \in DOMAIN out_file :
       /\ in_pages[k].index_id = 43
       /\ out_file[k].img.type = FIL_PAGE_INDEX
       /\ out_file[k].img.index_id = 44

----------------------------------------------------------------------------
(* Claims on the SDI root page *)

\* the rebuild returned true and had an SDI JSON file
RebuiltWithSdi == rb_pc = "done" /\ rb_ret = "true" /\ opt.have_json

\* the SDI root the output names in the SDI slot of its page 0
OutSdiRoot ==
  LET p0 == get_page(out_file, 0)
  IN ReadSlot(p0.fsp, fsp_header_get_sdi_offset(page_size_t(p0.fsp.flags)))[2]

\* how often x is an element of the sequence
Count(seq, x) == Cardinality({k \in DOMAIN seq : seq[k] = x})

SameMultiset(a, b) ==
  /\ Len(a) = Len(b)
  /\ \A k \in DOMAIN a : Count(a, a[k]) = Count(b, a[k])

\* the (type, id, json) of the entries the rebuild loaded
LoadedEntries ==
  [k \in DOMAIN opt.sdi_entries |->
     [type |-> opt.sdi_entries[k].type, id |-> opt.sdi_entries[k].id,
      json |-> opt.sdi_entries[k].json]]

\* C11: after a rebuild that returned true, reading the SDI from the output
\* gives the multiset of (type, id, json) of the entries the rebuild loaded
C11_SdiRoundTrip ==
  RebuiltWithSdi => SameMultiset(iter_sdi(out_file, OutSdiRoot), LoadedEntries)

\* the SDI root is written to the output and no blob page is written over it
SdiRootWritten ==
  /\ opt.have_json /\ sdi_root_set
  /\ rb_pc \in {"loop", "blobs", "done"}
  /\ rb_page_no > sdi_root_page
  /\ sdi_root_page \notin blob_written

SdiRootPage == get_page(out_file, sdi_root_page)

\* the walk of the SDI root from infimum
SdiRootWalk == walk_records(SdiRootPage, UNIV_PAGE_SIZE_ORIG, walk_start)

\* infimum, the records the walk came to, supremum
SdiRootChain ==
  <<PAGE_NEW_INFIMUM>> \o SdiRootWalk.seen \o <<PAGE_NEW_SUPREMUM>>

\* the place of a record in the chain
ChainPos(off) == CHOOSE k \in DOMAIN SdiRootChain : SdiRootChain[k] = off

\* the number of records slot g of the directory owns: those after the owner
\* of slot g - 1 up to its own owner
GroupSize(g) ==
  ChainPos(SdiRootPage.hdr.dir[g]) - ChainPos(SdiRootPage.hdr.dir[g - 1])

\* the directory names records of the chain, slot 0 names infimum, which
\* owns itself only, the last slot names supremum, and n_owned is the size
\* of the group in an owner and 0 in any other record
DirWellFormed ==
  LET p == SdiRootPage
      dir == p.hdr.dir
  IN /\ Len(dir) = p.hdr.n_dir_slots /\ Len(dir) >= 2
     /\ \A g \in DOMAIN dir : \E k \in DOMAIN SdiRootChain :
          SdiRootChain[k] = dir[g]
     /\ dir[1] = PAGE_NEW_INFIMUM /\ p.hdr.inf.n_owned = 1
     /\ dir[Len(dir)] = PAGE_NEW_SUPREMUM
     /\ \A g \in 2..Len(dir) : rec_at(p, dir[g]).n_owned = GroupSize(g)
     /\ \A k \in DOMAIN p.recs :
          (\A g \in DOMAIN dir : dir[g] # p.recs[k].offs)
          => p.recs[k].n_owned = 0

\* C12 as stated: on a repopulated SDI root every group of the directory has
\* between PAGE_DIR_SLOT_MIN_N_OWNED and PAGE_DIR_SLOT_MAX_N_OWNED members,
\* the last group ends at supremum and each owner has n_owned equal to the
\* size of its group
C12_AllGroupsInRange ==
  SdiRootWritten =>
    /\ DirWellFormed
    /\ \A g \in 2..Len(SdiRootPage.hdr.dir) :
         /\ GroupSize(g) >= PAGE_DIR_SLOT_MIN_N_OWNED
         /\ GroupSize(g) <= PAGE_DIR_SLOT_MAX_N_OWNED

\* C12: on a repopulated SDI root every group of the directory but the last
\* has PAGE_DIR_SLOT_MAX_N_OWNED members, the last group has between 1 and
\* PAGE_DIR_SLOT_MAX_N_OWNED members and ends at supremum, and each owner
\* has n_owned equal to the size of its group
C12_DirGroups ==
  SdiRootWritten =>
    /\ DirWellFormed
    /\ \A g \in 2..Len(SdiRootPage.hdr.dir) :
         IF g < Len(SdiRootPage.hdr.dir)
         THEN GroupSize(g) = PAGE_DIR_SLOT_MAX_N_OWNED
         ELSE GroupSize(g) >= 1 /\ GroupSize(g) <= PAGE_DIR_SLOT_MAX_N_OWNED

\* a root of nine records: a group of eight and a group of one record and
\* supremum
C12_Witness ==
  /\ SdiRootWritten
  /\ Len(SdiRootPage.recs) = 9
  /\ Len(SdiRootPage.hdr.dir) = 3
  /\ GroupSize(2) = 8 /\ GroupSize(3) = 2

\* C13: on a repopulated SDI root with n entries the walk from infimum comes
\* to the n user records in (type, id) order and then to supremum, after
\* n + 1 steps, which is within PAGE_N_RECS + 2
C13_ChainReachesSupremum ==
  SdiRootWritten =>
    LET p == SdiRootPage
        n == Len(opt.sdi_entries)
        w == SdiRootWalk
    IN /\ w.halt = "supremum"
       /\ w.steps = n + 1
       /\ w.steps <= p.hdr.n_recs + 2
       /\ Len(p.recs) = n
       /\ w.seen = [k \in 1..n |-> p.recs[k].offs]
       /\ \A k \in 1..n :
            /\ p.recs[k].type = opt.sdi_entries[k].type
            /\ p.recs[k].id = opt.sdi_entries[k].id
       /\ \A k \in 1..(n - 1) : ~sdi_entry_less(p.recs[k + 1], p.recs[k])

\* a root of nine records loaded from a file that lists them in falling
\* order
C13_Witness ==
  /\ SdiRootWritten
  /\ Len(SdiRootPage.recs) = 9
  /\ sdi_entry_less(opt.sdi_doc[2].e, opt.sdi_doc[1].e)
  /\ SdiRootWalk.steps = 10

\* the first byte of a record laid at heap top, and the size of the record
\* with its compressed bytes inline
RecBase(r) == r.offs - kSdiRecHeaderSize - Len(r.prefix)
InlineSize(r) ==
  kSdiRecHeaderSize + (IF r.comp_len <= 127 THEN 1 ELSE 2) + kSdiRecOffVar
  + r.comp_len

\* the first slot of the directory
DirStart(p) ==
  UNIV_PAGE_SIZE_ORIG - PAGE_DIR - PAGE_DIR_SLOT_SIZE * p.hdr.n_dir_slots

\* the length prefix has the "stored externally" bit
ExternBit(r) == Len(r.prefix) = 2 /\ (r.prefix[2] \div 64) % 2 = 1

\* C14: a record of the repopulated SDI root holds the compressed bytes
\* inline if and only if comp_len <= 0x3FFF and the record fits between heap
\* top and the directory; any other record holds a reference to a blob chain
\* and its length prefix has the "stored externally" bit
C14_InlineOrExternal ==
  SdiRootWritten =>
    \A k \in DOMAIN SdiRootPage.recs :
      LET r == SdiRootPage.recs[k]
          fits == RecBase(r) + InlineSize(r) <= DirStart(SdiRootPage)
          inline == r.json = opt.sdi_entries[k].json /\ ~ExternBit(r)
      IN /\ inline <=> (r.comp_len <= 16383 /\ fits)
         /\ ~inline =>
              /\ ExternBit(r)
              /\ r.json = 0
              /\ r.first_blob_page # FIL_NULL
              /\ r.ext_len = r.comp_len /\ r.ext_offset = FIL_PAGE_DATA

\* a root with two records inline and a third of the same length that does
\* not fit any more and is stored externally
C14_Witness ==
  /\ SdiRootWritten
  /\ Len(SdiRootPage.recs) = 3
  /\ \A k \in 1..3 : SdiRootPage.recs[k].comp_len = 8000
  /\ ~ExternBit(SdiRootPage.recs[2])
  /\ ExternBit(SdiRootPage.recs[3])

\* an entry that no root page can hold inline, and the blob pages it takes
NeedsBlob(e) ==
  \/ e.comp_len > 16383
  \/ PAGE_NEW_SUPREMUM_END + kSdiRecHeaderSize + 2 + kSdiRecOffVar + e.comp_len
       > UNIV_PAGE_SIZE_ORIG - PAGE_DIR - 2 * PAGE_DIR_SLOT_SIZE

RECURSIVE BlobPagesNeeded(_)
BlobPagesNeeded(es) ==
  IF es = <<>> THEN 0
  ELSE (IF NeedsBlob(es[1])
        THEN (es[1].comp_len + sdi_blob_payload_size(UNIV_PAGE_SIZE_ORIG) - 1)
               \div sdi_blob_payload_size(UNIV_PAGE_SIZE_ORIG)
        ELSE 0)
       + BlobPagesNeeded(Tail(es))

----------------------------------------------------------------------------
(* Claims on record extraction *)

\* the rows a run has emitted so far: printed by process_ibrec, queued by
\* row_parse_callback, or returned by read_next_record
Emitted ==
  {rows_out[k] : k \in DOMAIN rows_out}
    \cup {iter.row_queue[k] : k \in DOMAIN iter.row_queue}
    \cup {lib_ret[k] : k \in DOMAIN lib_ret}

\* the page of the input file a row names
RowPage(row) == in_pages[row.page_no + 1]

\* C16: no record is emitted from a page unless the page has type INDEX,
\* PAGE_LEVEL 0, COMPACT format and a PAGE_INDEX_ID equal to the target
\* index id, in the extract loop of the command line and in the table
\* iterator of the library.
C16_OnlyTargetLeafPages ==
  \A row \in Emitted :
    /\ RowPage(row).type = FIL_PAGE_INDEX
    /\ RowPage(row).hdr.level = 0
    /\ RowPage(row).comp
    /\ RowPage(row).index_id = parser_ctx.target_index_id

\* a file whose page 1 fails a guard although its records are valid, and
\* whose page 2 yields rows: once in the extract loop, once in the iterator
GuardedFile ==
  /\ Len(in_pages) = 3
  /\ in_pages[2].recs = LeafMixed.recs
  /\ \/ in_pages[2].type # FIL_PAGE_INDEX
     \/ in_pages[2].hdr.level # 0
     \/ ~in_pages[2].comp
     \/ in_pages[2].index_id # parser_ctx.target_index_id

C16_Witness ==
  /\ GuardedFile
  /\ lib_pc = "idle"
  /\ lib_ret # <<>>
  /\ \A row \in Emitted : row.page_no = 2

\* max_steps of the loop, from the sentence of the claim
WalkCap ==
  LET by_size == walk_page.size \div 6
      by_recs == walk_page.img.hdr.n_recs + 2
  IN IF by_size < by_recs THEN by_recs ELSE by_size

Walking == m3_pc = "walk" \/ lib_pc = "walk"

\* the offset the next-record delta of the current record leads to
WalkNextOff ==
  (walk_st.rec_offset
     + int16_t(rec_at(walk_page.img, walk_st.rec_offset).next))
    % walk_page.size

\* a loop that has ended has ended for one of the three reasons
WalkHaltReason ==
  \/ walk_st.halt = "none"
  \/ /\ walk_st.halt = "supremum"
     /\ rec_at(walk_page.img, walk_st.rec_offset).status
          = REC_STATUS_SUPREMUM
  \/ /\ walk_st.halt = "max_steps"
     /\ walk_st.steps = WalkCap
  \/ /\ walk_st.halt \in {"no_next", "loop"}
     /\ \/ rec_at(walk_page.img, walk_st.rec_offset).next = 0
        \/ WalkNextOff = walk_st.rec_offset
        \/ WalkNextOff < PAGE_NEW_INFIMUM
        \/ WalkNextOff >= walk_page.size

\* C17: the record loop of a page always terminates, whatever next-record
\* deltas the page contains: it never runs more than
\* max(page_size / 6, n_recs + 2) iterations, every loop that has started
\* ends, and it ends on a record of status SUPREMUM, at the step cap, or on a
\* next offset that loops or leaves the page.
C17_WalkTerminates ==
  /\ [](walk_st.steps <= WalkCap)
  /\ []WalkHaltReason
  /\ Walking ~> ~Walking

\* a loop on a cycle of next pointers has ended at the step cap
C17_Witness ==
  /\ ~Walking
  /\ walk_st.halt = "max_steps"
  /\ walk_st.steps = 702

\* whether a page reaches the record loop: the guards of both paths, and
\* the zip stream of a compressed tablespace inflates
ReachesLoop(page) ==
  /\ page.type = FIL_PAGE_INDEX
  /\ page.hdr.level = 0
  /\ page.comp
  /\ page.index_id = parser_ctx.target_index_id
  /\ \/ determine_page_size(in_pages).pg_sz.physical
          = determine_page_size(in_pages).pg_sz.logical
     \/ ZipAccepts(page)

\* the user records of a page are linked in their order, from the infimum
\* to the supremum
LinkedInOrder(page) ==
  /\ page.recs # <<>>
  /\ PAGE_NEW_INFIMUM + int16_t(page.hdr.inf.next) = page.recs[1].offs
  /\ \A k \in DOMAIN page.recs :
       page.recs[k].offs + int16_t(page.recs[k].next)
         = IF k = Len(page.recs) THEN PAGE_NEW_SUPREMUM
           ELSE page.recs[k + 1].offs

\* the rows a page owes: its ordinary records that are not delete-marked and
\* pass the validation gate, in chain order
RECURSIVE RowsOwed(_, _, _)
RowsOwed(page, page_no, k) ==
  IF k > Len(page.recs) \/ ~ReachesLoop(page) THEN <<>>
  ELSE (IF /\ page.recs[k].status = REC_STATUS_ORDINARY
           /\ ~page.recs[k].deleted
           /\ check_for_a_record(page, page.recs[k].offs, table)
        THEN <<Row(page_no, page.recs[k].offs, FALSE)>> ELSE <<>>)
         \o RowsOwed(page, page_no, k + 1)

\* the rows pages 1 .. n - 1 of the file owe, in file order
RECURSIVE RowsOwedBefore(_)
RowsOwedBefore(n) ==
  IF n <= 1 THEN <<>>
  ELSE RowsOwedBefore(n - 1) \o RowsOwed(in_pages[n], n - 1, 1)

\* every page that reaches the loop is linked in order
ChainsIntact ==
  \A n \in DOMAIN in_pages :
    ReachesLoop(in_pages[n]) => LinkedInOrder(in_pages[n])

\* C18: a record the validation gate rejects is skipped without being
\* emitted and the loop continues with the next record in the chain, so the
\* valid records that follow it on the same page are still emitted: on pages
\* whose records are linked in order the rows emitted are the rows owed, in
\* the command line (rows printed) and in the library (rows returned and
\* queued).
C18_RejectedSkipped ==
  /\ \A row \in Emitted :
       check_for_a_record(RowPage(row), row.rec_offset, table)
  /\ (ChainsIntact /\ m3_pc \in {"loop", "done"})
       => rows_out = RowsOwedBefore(m3_page_no)
  /\ (ChainsIntact /\ lib_pc = "idle")
       => LET owed == RowsOwedBefore(iter.current_page)
          IN /\ Len(owed) = iter.rows_read + Len(iter.row_queue)
             /\ lib_ret # <<>> => lib_ret = <<owed[iter.rows_read]>>
             /\ \A k \in DOMAIN iter.row_queue :
                  iter.row_queue[k] = owed[iter.rows_read + k]

\* a rejected record lies between two emitted rows of one page
C18_Witness ==
  /\ m3_pc = "done"
  /\ \E i, j \in DOMAIN rows_out :
       /\ rows_out[i].page_no = rows_out[j].page_no
       /\ rows_out[i].rec_offset = 128
       /\ rows_out[j].rec_offset = 192
       /\ ~check_for_a_record(RowPage(rows_out[i]), 160, table)
       /\ rec_at(RowPage(rows_out[i]), 160).status = REC_STATUS_ORDINARY

----------------------------------------------------------------------------
(* Claims on the reader of externally stored fields *)

\* local_len of read_external_lob_value
LobLocalLen ==
  IF lob_field.field_len < BTR_EXTERN_FIELD_REF_SIZE THEN 0
  ELSE lob_field.field_len - BTR_EXTERN_FIELD_REF_SIZE

\* C19 as stated: for every external reference, every lob_max_bytes and
\* every length of the local prefix, the number of value bytes produced is
\* at most min(reference.length, lob_max_bytes)
C19_AtMostMinLengthLimit ==
  lob_pc = "done"
    => lob_out <= Min(lob_field.ref.length, lob_max_bytes)

\* C19: for every external reference, every lob_max_bytes and every length
\* of the local prefix, the value never holds more bytes than the local
\* prefix and reference.length together, never more than lob_max_bytes when
\* lob_max_bytes is above 0 (0 sets no limit), the bytes taken from the
\* chain are at most the bytes wanted, which are at most reference.length,
\* and no more bytes are printed than the value holds
C19_LobBytesBounded ==
  /\ lob_out <= LobLocalLen + lob_field.ref.length
  /\ lob_max_bytes > 0 => lob_out <= lob_max_bytes
  /\ lob_loop.total <= lob_loop.want
  /\ lob_loop.want <= lob_field.ref.length
  /\ lob_ret.printed <= lob_out
  /\ lob_max_bytes > 0 => lob_ret.printed <= lob_max_bytes

\* a value of 3 local bytes and 30 external bytes read under a limit of 20:
\* 17 bytes come from the old chain and the value is marked truncated
C19_Witness ==
  /\ lob_pc = "done" /\ lob_ret.ok /\ lob_ret.truncated
  /\ LobLocalLen = 3 /\ lob_field.ref.length = MaxLobLen
  /\ lob_max_bytes = 20 /\ lob_out = 20 /\ lob_loop.total = 17
  /\ lob_loop.steps = 2

\* the chain loops: the loop of the chain reader and, inside an iteration
\* of read_zlob_new_format, the loops of read_zlob_visible_entry and
\* read_zlob_stream
InChainLoop == lob_pc \in {"old", "lob", "zblob", "zlob"}
InInnerLoop == lob_pc \in {"zver", "zstream"}

\* C20: every chain walk (old BLOB chain, LOB_FIRST index list, ZBLOB
\* stream, ZLOB_FIRST index list, and the version list and the stream of a
\* ZLOB entry) ends after at most 100000 iterations, also when the page
\* links form a cycle: no loop begins more than max_steps iterations,
\* every step that stays in a loop is one more iteration of it, and the
\* loops inside an iteration of read_zlob_new_format run one after the other
C20_ChainWalksCapped ==
  /\ [](lob_loop.steps <= max_steps /\ lob_loop.in_steps <= max_steps)
  /\ [][InChainLoop /\ lob_pc' # "done"
          => lob_loop'.steps = lob_loop.steps + 1]_vars
  /\ [][InInnerLoop /\ lob_pc' = lob_pc
          => /\ lob_loop'.in_steps = lob_loop.in_steps + 1
             /\ lob_loop'.steps = lob_loop.steps]_vars
  /\ [][InInnerLoop /\ lob_pc' \notin {lob_pc, "done"}
          => lob_pc' = IF lob_pc = "zver" THEN "zstream" ELSE "zlob"]_vars

\* the LOB_FIRST index list that is a cycle of entries without data was
\* left after max_steps iterations
C20_Witness ==
  /\ lob_pc = "done" /\ lob_field.ref.page_no = 6
  /\ lob_loop.steps = max_steps /\ lob_loop.page_no # FIL_NULL
  /\ lob_loop.remaining > 0

----------------------------------------------------------------------------
(* Claims on free pages, on the row calls of the library and on the record *)
(* chain                                                                   *)

\* C21: record extraction never emits a record from a page whose FREE bit is
\* set in its extent descriptor, in the extract loop of the command line and
\* in the table iterator of the library
C21_NoRowFromFreePage ==
  \A row \in Emitted : ~xdes_is_free(in_pages, row.page_no)

\* the extract loop of the command line keeps to it
ExtractLoopSkipsFree ==
  \A k \in DOMAIN rows_out : ~xdes_is_free(in_pages, rows_out[k].page_no)

\* the rows the open table holds: the ordinary records of its target leaf
\* pages that are not delete-marked and pass the validation with
\* UNIV_PAGE_SIZE at the page size of the table's own file
OwnRows ==
  {Row(nk[1] - 1, in_pages[nk[1]].recs[nk[2]].offs, FALSE) :
     nk \in {nk \in (2..Len(in_pages)) \X (1..8) :
               /\ nk[2] \in DOMAIN in_pages[nk[1]].recs
               /\ ReachesLoop(in_pages[nk[1]])
               /\ in_pages[nk[1]].recs[nk[2]].status = REC_STATUS_ORDINARY
               /\ ~in_pages[nk[1]].recs[nk[2]].deleted
               /\ check_for_a_record_under(
                    in_pages[nk[1]], in_pages[nk[1]].recs[nk[2]].offs, table,
                    determine_page_size(in_pages).pg_sz.logical)}}

\* the rows the calls of ibd_read_row returned so far
Returned == {lib_log.rows[k] : k \in DOMAIN lib_log.rows}

\* C22: operations share no mutable state: opening a second table does not
\* change the rows that an already-open table iterator returns afterwards,
\* so whatever else the caller opened, the iterator has returned every row
\* the table holds when it reports the end
C22_OpenKeepsRows ==
  (lib_pc = "idle" /\ iter.at_end) => Returned = OwnRows

\* a call of ibd_read_row on the table has returned and none is under way
Returned_a_call == lib_pc = "idle" /\ lib_log.returned

C24_EndOfStreamCode ==
  (Returned_a_call /\ iter.at_end)
    => (lib_log.code # IBD_SUCCESS /\ lib_log.code \notin ibd_error_codes)

\* C25: at every point ibd_get_row_count(table) equals the number of
\* ibd_read_row calls on that table that have returned IBD_SUCCESS so far;
\* rows parsed into the internal queue but not yet returned are not counted
C25_RowCountIsSuccesses ==
  /\ ibd_get_row_count(iter) = lib_log.ok_calls
  /\ ibd_get_row_count(iter) = Len(lib_log.rows)

\* a call has returned a row while further rows wait in the queue
C25_Witness ==
  /\ Returned_a_call
  /\ lib_log.ok_calls >= 1
  /\ iter.row_queue # <<>>

\* C26: on success ibd_decompress_page sets *decompressed_size to the actual
\* size of the data it produced (the logical size for a decompressed page,
\* the physical size for a page passed through), also when the caller's
\* buffer is larger than that
C26_SizeOfDataProduced ==
  (dp_pc = "api_ret" /\ dp_ret.code = IBD_SUCCESS)
    => dp_ret.decompressed_size = dp_ret.actual_size

\* C27: the use_target_space_id / use_source_space_id options control which
\* space_id rebuild writes: with use_target_space_id and a target space id
\* supplied, every output page carries the target space id in its space-id
\* slot; otherwise every output page carries the source space id
C27_SpaceIdOptions ==
  \A k \in DOMAIN out_file :
    out_file[k].img.space
      = IF opt.use_target_space_id /\ opt.target_space_id_override_set
        THEN opt.target_space_id_override
        ELSE in_pages[1].fsp.space_id

\* every output page carries the source space id, whatever the options
SourceSpaceIdWritten ==
  \A k \in DOMAIN out_file : out_file[k].img.space = in_pages[1].fsp.space_id

\* no element occurs twice in the sequence
NoRepeat(seq) == \A i, j \in DOMAIN seq : seq[i] = seq[j] => i = j

\* C28: during one walk of a page's record chain each record offset is
\* emitted at most once, also when the next pointers form a cycle of two or
\* more records that never reaches the supremum; a page is walked once, so
\* no row (page number and record offset) is printed twice by the command
\* line or queued twice by the library
C28_OffsetEmittedOnce ==
  /\ NoRepeat(rows_out)
  /\ NoRepeat(iter.row_queue)

\* the iterator reported the end of the table
AtEndReported == Returned_a_call /\ iter.at_end

\* the row queue is empty whenever the iterator is marked at end
QueueEmptyAtEnd == iter.at_end => iter.row_queue = <<>>

\* the rows came in ascending page order
PageOrderKept ==
  \A i \in 1..(Len(lib_log.rows) - 1) :
    lib_log.rows[i].page_no <= lib_log.rows[i + 1].page_no

\* on files whose record chains are intact the rows delivered are the rows
\* owed, in page order and in chain order
IntactDelivered ==
  (AtEndReported /\ ChainsIntact)
    => lib_log.rows = RowsOwedBefore(Len(in_pages))

\* C29: the table iterator of the library delivers every valid, non-deleted
\* record of the leaf pages of the target index exactly once before it
\* reports no more rows, in ascending page order and within a page in
\* record-chain order; the row queue is empty whenever the iterator is
\* marked at end
C29_EveryRowExactlyOnce ==
  /\ QueueEmptyAtEnd
  /\ PageOrderKept
  /\ IntactDelivered
  /\ NoRepeat(lib_log.rows)

\* the blob page of the pending-output map at place i of the pool, and its
\* LOB header
PoolPage(i) == sdi_blob_output[sdi_blob_pages[i]]
PoolLob(i) == PoolPage(i).lob[1]

\* the number of pool pages handed out
HandedOut == Cardinality(DOMAIN sdi_blob_output)

\* C30: during one rebuild the SDI blob allocator hands out the page numbers
\* of the pool (the SDI blob pages of the input, in file order) in pool
\* order and never the same page number twice, so the blob chains of
\* different SDI entries are disjoint, no synthesized blob page replaces
\* another in the pending-output map, and within a chain the next pointer
\* of each page is the page allocated next, FIL_NULL on the last page: the
\* map holds a prefix of the pool, its first page starts a document, each
\* page carries its own number, a page
\* with a next pointer is followed in the pool by the next part of the same
\* document, a page without one ends its document and the page after it
\* starts another
C30_BlobChainsInPoolOrder ==
  /\ NoRepeat(sdi_blob_pages)
  /\ \A i \in DOMAIN sdi_blob_pages :
       in_pages[sdi_blob_pages[i] + 1].type
         \in {FIL_PAGE_SDI_BLOB, FIL_PAGE_SDI_ZBLOB}
  /\ HandedOut <= Len(sdi_blob_pages)
  /\ DOMAIN sdi_blob_output = {sdi_blob_pages[i] : i \in 1..HandedOut}
  /\ HandedOut >= 1 => PoolLob(1).offset = 0
  /\ \A i \in 1..HandedOut :
       /\ PoolPage(i).page_no = sdi_blob_pages[i]
       /\ PoolPage(i).type = FIL_PAGE_SDI_BLOB
       /\ PoolLob(i).part_len > 0
       /\ IF PoolLob(i).next_page # FIL_NULL
          THEN /\ i < HandedOut
               /\ PoolLob(i).next_page = sdi_blob_pages[i + 1]
               /\ PoolLob(i + 1).json = PoolLob(i).json
               /\ PoolLob(i + 1).offset
                    = PoolLob(i).offset + PoolLob(i).part_len
          ELSE /\ \E e \in {opt.sdi_entries[k] : k \in DOMAIN opt.sdi_entries} :
                    /\ e.json = PoolLob(i).json
                    /\ e.comp_len = PoolLob(i).offset + PoolLob(i).part_len
               /\ i < HandedOut => PoolLob(i + 1).offset = 0

\* two documents went to blob chains, one of them of two pages or more
C30_Witness ==
  /\ rb_pc = "blobs"
  /\ HandedOut = 3
  /\ PoolLob(1).offset = 0 /\ PoolLob(1).next_page = sdi_blob_pages[2]
  /\ PoolLob(2).offset > 0 /\ PoolLob(2).next_page = FIL_NULL
  /\ PoolLob(3).offset = 0 /\ PoolLob(3).json # PoolLob(1).json

====
